---- MODULE Spec2Model ----
(***************************************************************************)
(* A model of the article pipeline of Ternak-content.                      *)
(*                                                                         *)
(*   Spec            ContentGenerator: client setup, the provider chain    *)
(*                   _try_ai_generation, generate_outline and              *)
(*                   generate_content (src/modules/content_generator.py)   *)
(*   SpecResearch    KeywordResearch.research_keyword and its lookups      *)
(*                   (src/modules/keyword_research.py)                     *)
(*   SpecHeuristics  the pure heuristics _analyze_competition and          *)
(*                   _estimate_search_volume over enumerated inputs        *)
(*   SpecImages      ImageGenerator.generate_images and its providers      *)
(*                   (src/modules/image_generator.py)                      *)
(*   SpecAssemble    ContentGenerator.build_html, called twice on the same *)
(*                   arguments                                             *)
(*   SpecBatch       the batch entry points process_bulk_keywords (cli.py) *)
(*                   and process_keywords (main.py)                        *)
(*   SpecPipeline    research, outline, content, images and build_html of  *)
(*                   one keyword, composed, without credentials            *)
(*   SpecPublish     WordPressPublisher.publish_post and its callers       *)
(*   SpecWeb         the endpoints /publish-wordpress and /upload-keywords *)
(*   SpecCli         the command line of cli.py: generation, then          *)
(*                   publishing                                            *)
(*   SpecStartup     the ways the application is started                   *)
(*                                                                         *)
(* Strings that the code only passes around are TLA+ strings.  Strings the *)
(* code takes apart or builds (keywords, related keywords) are sequences   *)
(* of atoms: a word, or a single blank " ".  JSON text is a record         *)
(* [kind, val]; a Python value is a record [type, val].                    *)
(***************************************************************************)
EXTENDS Integers, Sequences, FiniteSets, TLC

VARIABLES
    \* ---- ContentGenerator ----
    settings,     \* Settings: which credentials are non-empty
    libs,         \* which optional client libraries imported and construct
    clients,      \* self.openai_client .. self.hf_client: TRUE iff not None
    gkeyword,     \* keyword argument of generate_outline / generate_content
    gpc,          \* position inside generate_outline / generate_content
    task,         \* task_type of the running _try_ai_generation
    calls,        \* provider calls issued by the running chain, with outcome
    result,       \* value returned by _try_ai_generation
    outline,      \* value returned by generate_outline
    content,      \* value returned by generate_content
    raised,       \* an exception left generate_outline / generate_content
    \* ---- KeywordResearch.research_keyword ----
    rkeyword,     \* keyword argument
    rpc,          \* position inside research_keyword
    net,          \* what each network lookup of this call answered (of
                  \* the four question searches, the status), and the
                  \* interpreter's hash seed
    related,      \* related_keywords
    questions,    \* questions
    top_results,  \* top_results
    research,     \* the dict returned by research_keyword
    \* ---- the heuristics applied to enumerated inputs ----
    hpc, hkeyword, hkeyword2, htop, hcomp, hvol, hvol2,
    \* ---- ImageGenerator.generate_images ----
    isettings,    \* max_images_per_article, the stock API keys, hf_client
    ipc,          \* position inside generate_images
    inet,         \* what each provider request, the filesystem and the
                  \* downloads of this call answered
    queried,      \* the providers queried by this call, in order
    images,       \* images: the candidate pool
    fallback_images, \* the sample appended to the pool, if any
    saved_images, \* saved_images
    iresult,      \* the list returned by generate_images
    icaught,      \* the except branch of generate_images was entered
    \* ---- ContentGenerator.build_html ----
    bpc,          \* how many calls of build_html were made
    bkeyword,     \* keyword argument of both calls
    bcontent,     \* content argument of both calls
    bimages,      \* images argument of both calls
    bnow,         \* datetime.now() read by each call
    html,         \* what each call returned, or that it raised
    \* ---- batch processing (cli.py, main.py) ----
    entry,        \* "cli": process_bulk_keywords, "web": process_keywords
    request,      \* the request: keywords, generate_images
    max_keywords_per_batch, \* Settings.max_keywords_per_batch
    kindex,       \* position of the loop over the keywords
    runs,         \* what happened in each iteration, in order
    bulk_results, \* results: [success, failed] (cli), a list (web)
    batch_pc,     \* "idle", "loop", "returned"
    response,     \* what the entry point returned
    \* ---- publishing (wordpress_publisher.py, cli.py, main.py) ----
    wp,           \* Settings: which of wordpress_url, wordpress_user,
                  \* wordpress_app_password are non-empty
    args,         \* the command line of cli.py
    ppc,          \* position of the caller of the publisher
    pindex,       \* position of the publish loop of cli.py
    posts,        \* the POST requests sent to WordPress, in order
    publish_log,  \* the calls of publish_post, with what they returned
    reply,        \* the HTTP response of a web endpoint
    \* ---- startup (run.py, main.py, config.py) ----
    env,          \* which credentials are set, which directories exist
    launcher,     \* how the application was started
    server        \* "down", "serving", "exited"

genVars == <<settings, libs, clients, gkeyword, gpc, task, calls, result,
             outline, content, raised>>

resVars == <<rkeyword, rpc, net, related, questions, top_results, research>>

heuVars == <<hpc, hkeyword, hkeyword2, htop, hcomp, hvol, hvol2>>

imgVars == <<isettings, ipc, inet, queried, images, fallback_images,
             saved_images, iresult, icaught>>

htmlVars == <<bpc, bkeyword, bcontent, bimages, bnow, html>>

batchVars == <<entry, request, max_keywords_per_batch, kindex, runs,
               bulk_results, batch_pc, response>>

pubVars == <<wp, args, ppc, pindex, posts, publish_log, reply>>

startVars == <<env, launcher, server>>

vars == <<genVars, resVars, heuVars, imgVars, htmlVars, batchVars, pubVars,
          startVars>>

\* Variables the ContentGenerator actions leave alone.
nonGenVars == <<resVars, heuVars, imgVars, htmlVars, batchVars, pubVars,
               startVars>>

\* The same, without the research data a generator call is given.
nonGenDataVars == <<rkeyword, rpc, net, related, questions, top_results,
                   heuVars, imgVars, htmlVars, batchVars, pubVars,
                   startVars>>

\* Variables the KeywordResearch actions leave alone.
nonResVars == <<genVars, heuVars, imgVars, htmlVars, batchVars, pubVars,
               startVars>>

\* Variables the heuristics' actions leave alone.
nonHeuVars == <<genVars, resVars, imgVars, htmlVars, batchVars, pubVars,
               startVars>>

\* Variables the ImageGenerator actions leave alone.
nonImgVars == <<genVars, resVars, heuVars, htmlVars, batchVars, pubVars,
               startVars>>

\* Variables the build_html actions leave alone.
nonHtmlVars == <<genVars, resVars, heuVars, imgVars, batchVars, pubVars,
               startVars>>

\* Variables the batch actions leave alone.
nonBatchVars == <<genVars, resVars, heuVars, imgVars, htmlVars, pubVars,
                 startVars>>

\* Variables the publishing actions leave alone.
nonPubVars == <<genVars, resVars, heuVars, imgVars, htmlVars, batchVars,
               startVars>>

\* Variables the startup actions leave alone.
nonStartVars == <<genVars, resVars, heuVars, imgVars, htmlVars, batchVars,
                 pubVars>>

-----------------------------------------------------------------------------
(* Values                                                                  *)

Providers == <<"openai", "cohere", "anthropic", "huggingface">>

ProviderSet == {Providers[i] : i \in 1..Len(Providers)}

EmptyDict == [f \in {} |-> <<>>]

\* Python values that json.loads can return, and None.
DictVal(d) == [type |-> "dict", val |-> d]
NoneVal == [type |-> "none", val |-> EmptyDict]
ListVal == [type |-> "list", val |-> EmptyDict]
Unset == [type |-> "unset", val |-> EmptyDict]

\* Text: kind "none" is Python None, "empty" is "", "nonjson" is text that
\* json.loads rejects, "null" is the JSON text null, "nonobj" is a JSON
\* array or scalar, "obj" is a JSON object whose members are val.
TextKinds == {"none", "empty", "nonjson", "null", "nonobj", "obj"}

Text(kind, val) == [kind |-> kind, val |-> val]

NoText == Text("unset", EmptyDict)

OutlineFields == {"title", "h1", "h2_sections", "faq", "conclusion"}

ContentFields == {"title", "meta_description", "content", "summary",
                  "keywords", "word_count"}

SchemaFields(t) == IF t = "outline" THEN OutlineFields ELSE ContentFields

\* json.dumps of a Python value.
JsonDumps(v) ==
    IF v.type = "dict" THEN Text("obj", v.val)
    ELSE IF v.type = "none" THEN Text("null", EmptyDict)
    ELSE Text("nonobj", EmptyDict)

\* json.loads: [ok |-> FALSE] is a raised JSONDecodeError / TypeError.
JsonLoads(t) ==
    IF t.kind = "obj" THEN [ok |-> TRUE, value |-> DictVal(t.val)]
    ELSE IF t.kind = "null" THEN [ok |-> TRUE, value |-> NoneVal]
    ELSE IF t.kind = "nonobj" THEN [ok |-> TRUE, value |-> ListVal]
    ELSE [ok |-> FALSE, value |-> Unset]

\* Python truthiness of an Optional[str].
Truthy(t) == t.kind \notin {"none", "empty", "unset"}

\* str.title() on the keywords of the model.
GenKeywords == {"seo", "diet sehat"}

Title(kw) ==
    IF kw = "seo" THEN "Seo"
    ELSE IF kw = "diet_sehat" THEN "Diet_Sehat" ELSE "Diet Sehat"

-----------------------------------------------------------------------------
(* ContentGenerator._generate_simple_content                               *)

SimpleOutline ==
    [title |-> <<"Panduan Lengkap">>,
     h1 |-> <<"Panduan Lengkap">>,
     h2_sections |->
        << [title |-> <<"Pengenalan">>,
            h3_subsections |-> <<"Apa itu", "Manfaat", "Kegunaan">>],
           [title |-> <<"Cara Melakukan">>,
            h3_subsections |-> <<"Langkah-langkah", "Tips", "Perhatian">>] >>,
     faq |-> << <<"Apa itu?">>, <<"Bagaimana cara?">>, <<"Apa manfaatnya?">> >>,
     conclusion |-> <<"Kesimpulan">>]

SimpleWordCount == 500

SimpleContent ==
    [title |-> <<"Panduan Lengkap">>,
     meta_description |-> <<"Panduan lengkap dan informatif">>,
     content |-> <<"<h2>Pengenalan</h2><p>Artikel informatif yang lengkap.</p>">>,
     summary |-> <<"Ringkasan artikel">>,
     keywords |-> << <<"keyword">> >>,
     word_count |-> SimpleWordCount]

GenerateSimpleContentWrongKind(task_type) ==
    IF task_type = "outline" THEN JsonDumps(DictVal(SimpleContent))
    ELSE JsonDumps(DictVal(SimpleOutline))

GenerateSimpleContent(task_type) ==
    IF task_type = "outline" THEN JsonDumps(DictVal(SimpleOutline))
    ELSE JsonDumps(DictVal(SimpleContent))

-----------------------------------------------------------------------------
(* ContentGenerator._create_fallback_outline / _create_fallback_content    *)

CreateFallbackOutline(kw) ==
    [title |-> <<"Panduan Lengkap: ", Title(kw)>>,
     h1 |-> <<"Panduan Lengkap: ", Title(kw)>>,
     h2_sections |->
        << [title |-> <<"Apa itu ", kw, "?">>,
            h3_subsections |-> <<"Definisi", "Manfaat", "Kegunaan">>],
           [title |-> <<"Cara ", kw>>,
            h3_subsections |-> <<"Langkah-langkah", "Tips",
                                 "Hal yang Perlu Diperhatikan">>],
           [title |-> <<"Tips dan Trik ", kw>>,
            h3_subsections |-> <<"Best Practices", "Kesalahan Umum",
                                 "Rekomendasi">>] >>,
     faq |-> << <<"Apa itu ", kw, "?">>, <<"Bagaimana cara ", kw, "?">>,
                <<"Apa manfaat ", kw, "?">>, <<"Berapa biaya ", kw, "?">>,
                <<"Di mana bisa ", kw, "?">> >>,
     conclusion |-> <<"Kesimpulan tentang ", kw>>]

FallbackWordCount == 500

\* outline.get("title", ...) needs a dict: on None or a list it raises
\* AttributeError, which the caller of this operator models.
CreateFallbackContent(kw, ol) ==
    [title |-> IF "title" \in DOMAIN ol THEN ol.title
               ELSE <<"Panduan ", Title(kw)>>,
     meta_description |-> <<"Panduan lengkap tentang ", kw>>,
     content |-> <<"<h2>Apa itu ", kw, "?</h2>">>,
     summary |-> <<"Artikel ini membahas tentang ", kw, " secara lengkap.">>,
     keywords |-> << <<kw>>, <<"cara ", kw>>, <<"tips ", kw>> >>,
     word_count |-> FallbackWordCount]

-----------------------------------------------------------------------------
(* ContentGenerator.__init__ / _setup_ai_clients                           *)

SettingKeys == {"openai_api_key", "cohere_api_key", "anthropic_api_key",
                "huggingface_token"}

\* libs.x is TRUE when the optional import of x succeeded and its client
\* constructor did not raise (a NameError or constructor error is caught
\* and leaves the client None).
LibNames == {"cohere", "anthropic", "transformers"}

\* The credential each provider is configured by (utils/config.py).
KeyOf(p) ==
    CASE p = "openai" -> "openai_api_key"
      [] p = "cohere" -> "cohere_api_key"
      [] p = "anthropic" -> "anthropic_api_key"
      [] OTHER -> "huggingface_token"

SetupAiClients(s, l) ==
    [openai |-> s["openai_api_key"],
     cohere |-> s["cohere_api_key"] /\ l["cohere"],
     anthropic |-> s["anthropic_api_key"] /\ l["anthropic"],
     huggingface |-> l["transformers"]]

-----------------------------------------------------------------------------
(* What a provider call can yield                                          *)

\* Member values of a JSON object written by a provider.
AiValue(f) ==
    IF f = "word_count" THEN 1500
    ELSE IF f = "h2_sections"
         THEN << [title |-> <<"ai">>, h3_subsections |-> <<"ai">>] >>
    ELSE IF f \in {"faq", "keywords"} THEN << <<"ai">> >>
    ELSE <<"ai">>

AiDoc(F) == [f \in F |-> AiValue(f)]

\* Member sets of the objects a provider answers with: the whole schema,
\* the schema without its title, and the empty object {}.
AiFieldSets(t) == {SchemaFields(t), SchemaFields(t) \ {"title"}, {}}

ProviderTexts(t) ==
    {Text(k, EmptyDict) : k \in TextKinds \ {"obj"}}
        \cup {Text("obj", AiDoc(F)) : F \in AiFieldSets(t)}

\* ok = FALSE: the call raised (network error, timeout, non-2xx, a
\* response without choices / generations / generated_text).
ProviderOutcomes(t) ==
    {[ok |-> FALSE, text |-> NoText]}
        \cup {[ok |-> TRUE, text |-> x] : x \in ProviderTexts(t)}

-----------------------------------------------------------------------------
(* ContentGenerator._try_ai_generation, one step per provider block        *)

\* Where control goes after the block of provider p: the return inside the
\* try on success, the next block when the call raised.
AfterCallNoReturn(ok, nextpc) == nextpc

AfterCall(ok, nextpc) == IF ok THEN "returned" ELSE nextpc

TryProvider(p, nextpc) ==
    /\ gpc = p
    /\ IF clients[p]
       THEN \E o \in ProviderOutcomes(task) :
               /\ calls' = Append(calls, [provider |-> p, ok |-> o.ok,
                                          text |-> o.text])
               /\ result' = IF o.ok THEN o.text ELSE result
               /\ gpc' = AfterCall(o.ok, nextpc)
       ELSE /\ gpc' = nextpc
            /\ UNCHANGED <<calls, result>>
    /\ UNCHANGED <<settings, libs, clients, gkeyword, task, outline, content,
                   raised>>
    /\ UNCHANGED nonGenVars

TryOpenAI == TryProvider("openai", "cohere")

TryCohere == TryProvider("cohere", "anthropic")

TryAnthropic == TryProvider("anthropic", "huggingface")

TryHuggingFace == TryProvider("huggingface", "template")

\* return self._generate_simple_content(prompt, task_type)
SimpleTemplate ==
    /\ gpc = "template"
    /\ result' = GenerateSimpleContent(task)
    /\ gpc' = "returned"
    /\ UNCHANGED <<settings, libs, clients, gkeyword, task, calls, outline,
                   content, raised>>
    /\ UNCHANGED nonGenVars

-----------------------------------------------------------------------------
(* ContentGenerator.generate_outline / generate_content                    *)

\* The outline prompt formats research_data.get('related_keywords', []),
\* .get('questions', []) and .get('competition', 'Unknown'); dict.get
\* reads, and nothing is assigned to the dict or to a value in it.
OutlinePromptMarksDate(research_data) ==
    [research_data EXCEPT !.research_date = "read"]

OutlinePrompt(research_data) == research_data

\* _build_eeat_context does not read research_data; the content prompt
\* formats .get('related_keywords', []) and .get('top_results', []).
ContentPrompt(research_data) == research_data

GenerateOutline ==
    /\ gpc = "ready"
    /\ task' = "outline"
    /\ calls' = <<>>
    /\ result' = NoText
    /\ gpc' = "openai"
    /\ research' = OutlinePrompt(research)
    /\ UNCHANGED <<settings, libs, clients, gkeyword, outline, content, raised>>
    /\ UNCHANGED nonGenDataVars

OutlineOfTemplateOnError(kw, r) ==
    IF Truthy(r) /\ JsonLoads(r).ok THEN JsonLoads(r).value
    ELSE DictVal(SimpleOutline)

\* if result: return json.loads(result) / else and except: the fallback.
OutlineOf(kw, r) ==
    IF Truthy(r) /\ JsonLoads(r).ok THEN JsonLoads(r).value
    ELSE DictVal(CreateFallbackOutline(kw))

FinishOutline ==
    /\ gpc = "returned"
    /\ task = "outline"
    /\ outline' = OutlineOf(gkeyword, result)
    /\ gpc' = "outline_done"
    /\ UNCHANGED <<settings, libs, clients, gkeyword, task, calls, result,
                   content, raised>>
    /\ UNCHANGED nonGenVars

\* json.dumps(outline) in the prompt accepts None, lists and dicts.
GenerateContent ==
    /\ gpc = "outline_done"
    /\ task' = "content"
    /\ calls' = <<>>
    /\ result' = NoText
    /\ gpc' = "openai"
    /\ research' = ContentPrompt(research)
    /\ UNCHANGED <<settings, libs, clients, gkeyword, outline, content, raised>>
    /\ UNCHANGED nonGenDataVars

\* _create_fallback_content runs in the else branch or in the except
\* handler; outline.get on None or a list raises AttributeError there, and
\* nothing catches it.
FinishContent ==
    /\ gpc = "returned"
    /\ task = "content"
    /\ IF Truthy(result) /\ JsonLoads(result).ok
       THEN /\ content' = JsonLoads(result).value
            /\ gpc' = "content_done"
            /\ UNCHANGED raised
       ELSE IF outline.type = "dict"
       THEN /\ content' = DictVal(CreateFallbackContent(gkeyword, outline.val))
            /\ gpc' = "content_done"
            /\ UNCHANGED raised
       ELSE /\ raised' = TRUE
            /\ gpc' = "raised"
            /\ UNCHANGED content
    /\ UNCHANGED <<settings, libs, clients, gkeyword, task, calls, result,
                   outline>>
    /\ UNCHANGED nonGenVars

-----------------------------------------------------------------------------
(* Specification of the ContentGenerator                                   *)

GenInit ==
    /\ settings \in [SettingKeys -> BOOLEAN]
    /\ libs \in [LibNames -> BOOLEAN]
    /\ clients = SetupAiClients(settings, libs)
    /\ gkeyword \in GenKeywords
    /\ gpc = "ready"
    /\ task = "none"
    /\ calls = <<>>
    /\ result = NoText
    /\ outline = Unset
    /\ content = Unset
    /\ raised = FALSE

\* The components that a specification does not run stay as constructed.
GenIdle ==
    /\ settings = [k \in SettingKeys |-> FALSE]
    /\ libs = [l \in LibNames |-> FALSE]
    /\ clients = SetupAiClients(settings, libs)
    /\ gkeyword = "seo"
    /\ gpc = "ready"
    /\ task = "none"
    /\ calls = <<>>
    /\ result = NoText
    /\ outline = Unset
    /\ content = Unset
    /\ raised = FALSE

ResIdle ==
    /\ rkeyword = <<>>
    /\ rpc = "idle"
    /\ net = [google |-> "none", bing |-> "none", qsearch |-> <<>>,
              serp |-> "none", seed |-> 0]
    /\ related = <<>>
    /\ questions = <<>>
    /\ top_results = <<>>
    /\ research = "none"

HeuIdle ==
    /\ hpc = "idle"
    /\ hkeyword = <<>>
    /\ hkeyword2 = <<>>
    /\ htop = <<>>
    /\ hcomp = "none"
    /\ hvol = "none"
    /\ hvol2 = "none"

\* Settings.max_images_per_article when the environment does not set it.
DefaultMaxImages == 3

ImgIdle ==
    /\ isettings = [max_images_per_article |-> DefaultMaxImages, unsplash_api_key |-> FALSE,
                    pixabay_api_key |-> FALSE, pexels_api_key |-> FALSE,
                    hf_client |-> FALSE]
    /\ ipc = "idle"
    /\ inet = [huggingface |-> "none", unsplash |-> "none", pixabay |-> "none",
               pexels |-> "none", makedirs |-> "none", fetch |-> "none"]
    /\ queried = <<>>
    /\ images = <<>>
    /\ fallback_images = <<>>
    /\ saved_images = <<>>
    /\ iresult = <<>>
    /\ icaught = FALSE

HtmlIdle ==
    /\ bpc = 0
    /\ bkeyword = "seo"
    /\ bcontent = Unset
    /\ bimages = <<>>
    /\ bnow = <<>>
    /\ html = <<>>

\* Settings.max_keywords_per_batch when the environment does not set it.
DefaultMaxKeywords == 50

BatchIdle ==
    /\ entry = "none"
    /\ request = <<>>
    /\ max_keywords_per_batch = DefaultMaxKeywords
    /\ kindex = 0
    /\ runs = <<>>
    /\ bulk_results = <<>>
    /\ batch_pc = "idle"
    /\ response = <<>>

\* No WordPress setting, no command line, nothing sent.
PubIdle ==
    /\ wp = [wordpress_url |-> FALSE, wordpress_user |-> FALSE,
             wordpress_app_password |-> FALSE]
    /\ args = [mode |-> "none", wordpress |-> FALSE]
    /\ ppc = "idle"
    /\ pindex = 0
    /\ posts = <<>>
    /\ publish_log = <<>>
    /\ reply = <<>>

\* Not started.
StartIdle ==
    /\ env = [openai_api_key |-> FALSE, cohere_api_key |-> FALSE,
              anthropic_api_key |-> FALSE, huggingface_token |-> FALSE,
              output_dir |-> TRUE, templates_dir |-> TRUE,
              static_dir |-> TRUE]
    /\ launcher = "none"
    /\ server = "down"

Init == GenInit /\ ResIdle /\ HeuIdle /\ ImgIdle /\ HtmlIdle /\ BatchIdle
        /\ PubIdle /\ StartIdle

Next ==
    \/ GenerateOutline
    \/ TryOpenAI
    \/ TryCohere
    \/ TryAnthropic
    \/ TryHuggingFace
    \/ SimpleTemplate
    \/ FinishOutline
    \/ GenerateContent
    \/ FinishContent

Spec == Init /\ [][Next]_vars

-----------------------------------------------------------------------------
(* Properties of the provider chain                                        *)

\* The providers whose client _setup_ai_clients created, in chain order.
ConfiguredOrder == SelectSeq(Providers, LAMBDA p : clients[p])

InChain == gpc \in ProviderSet \cup {"template"}

Finished == gpc \in {"outline_done", "content_done", "raised"}

LastCall == calls[Len(calls)]

NoCallSucceeded == \A i \in 1..Len(calls) : ~calls[i].ok

\* C1: within one _try_ai_generation the calls issued so far are a prefix
\* of OpenAI, Cohere, Anthropic, HuggingFace restricted to the providers
\* whose client was set up: no provider is called twice, every call but
\* the last one raised, a successful call is the last one and its text is
\* the value returned, and the chain returns without a success only after
\* every configured provider was called.
C1_ChainIsPrefixOfPriorityOrder ==
    /\ Len(calls) <= Len(ConfiguredOrder)
    /\ \A i \in 1..Len(calls) : calls[i].provider = ConfiguredOrder[i]
    /\ \A i \in 1..(Len(calls) - 1) : ~calls[i].ok
    /\ (calls # <<>> /\ LastCall.ok) => (~InChain /\ result = LastCall.text)
    /\ (gpc = "returned" /\ NoCallSucceeded)
          => Len(calls) = Len(ConfiguredOrder)

\* C1 witness: Cohere has no client, OpenAI and Anthropic raised, and
\* HuggingFace answered: its text is returned after three calls.
C1_Witness ==
    /\ gpc = "returned"
    /\ ~clients["cohere"]
    /\ Len(calls) = 3
    /\ calls[1].provider = "openai" /\ ~calls[1].ok
    /\ calls[2].provider = "anthropic" /\ ~calls[2].ok
    /\ calls[3].provider = "huggingface" /\ calls[3].ok
    /\ result = calls[3].text

\* C2: when every configured provider's call raised (or no provider is
\* configured) _try_ai_generation returns, without raising, the non-empty
\* static template of its task kind, a JSON object with exactly the members
\* of that kind's schema: the outline template for "outline", the content
\* template (word_count 500) for "content".
C2_AllFailedGivesTemplate ==
    (gpc = "returned" /\ NoCallSucceeded) =>
        /\ ~raised
        /\ Truthy(result)
        /\ JsonLoads(result).ok
        /\ JsonLoads(result).value.type = "dict"
        /\ DOMAIN JsonLoads(result).value.val = SchemaFields(task)
        /\ result.val.title = <<"Panduan Lengkap">>
        /\ task = "outline" =>
              /\ result.val.h1 = <<"Panduan Lengkap">>
              /\ Len(result.val.h2_sections) = 2
              /\ Len(result.val.faq) = 3
              /\ result.val.conclusion = <<"Kesimpulan">>
        /\ task = "content" =>
              /\ result.val.word_count = 500
              /\ result.val.summary = <<"Ringkasan artikel">>
              /\ result.val.keywords = << <<"keyword">> >>

\* C2 witness: all four providers were called for a content request, all
\* four raised, and the chain has returned.
C2_Witness ==
    /\ gpc = "returned"
    /\ task = "content"
    /\ Len(calls) = 4
    /\ NoCallSucceeded
    /\ result.kind = "obj"

\* The text parses to a JSON object holding every member of the schema.
ShapeOk(x, t) ==
    /\ JsonLoads(x).ok
    /\ JsonLoads(x).value.type = "dict"
    /\ SchemaFields(t) \subseteq DOMAIN JsonLoads(x).value.val

C4_NoCredentialNoCall ==
    \A i \in 1..Len(calls) : settings[KeyOf(calls[i].provider)]

\* C5 as stated: whatever the provider calls yield, generate_outline
\* returns a dict with every outline member and generate_content returns a
\* dict with every content member; neither raises, neither returns None.
C5_DocumentsAlwaysPopulated ==
    /\ ~raised
    /\ (gpc \in {"outline_done", "content_done"} \/ task = "content") =>
          /\ outline.type = "dict"
          /\ OutlineFields \subseteq DOMAIN outline.val
    /\ (gpc = "content_done") =>
          /\ content.type = "dict"
          /\ ContentFields \subseteq DOMAIN content.val

-----------------------------------------------------------------------------
(* KeywordResearch: strings                                                *)
(* A keyword or a related keyword is a sequence of atoms: a word, or one   *)
(* whitespace character (" " or "\t").                                     *)

IsSpace(a) == a \in {" ", "\t"}

\* str.split(): the maximal runs of non-whitespace atoms.
RECURSIVE SplitFrom(_, _, _)
SplitFrom(s, i, word) ==
    IF i > Len(s)
    THEN IF word = <<>> THEN <<>> ELSE <<word>>
    ELSE IF IsSpace(s[i])
         THEN IF word = <<>> THEN SplitFrom(s, i + 1, <<>>)
              ELSE <<word>> \o SplitFrom(s, i + 1, <<>>)
         ELSE SplitFrom(s, i + 1, Append(word, s[i]))

Split(s) == SplitFrom(s, 1, <<>>)

NumStr == <<"1", "2", "3", "4", "5", "6", "7", "8", "9", "10", "11", "12",
            "13", "14">>

\* Every atom of a related keyword, in no particular order; an atom's
\* index stands for its bytes when the string is hashed.
Vocabulary ==
    <<" ", "\t", "seo", "diet", "sehat", "belajar", "dasar",
      "cara", "tips", "panduan", "tutorial", "mengenal",
      "untuk", "pemula", "lengkap", "terbaik", "2024", "indonesia",
      "apa", "bagaimana", "kapan", "di", "mana", "mengapa", "g", "b">>
        \o NumStr

AtomCode(a) == CHOOSE i \in 1..Len(Vocabulary) : Vocabulary[i] = a

\* hash(str) under the interpreter's hash seed (PYTHONHASHSEED): the
\* seed decides the order in which a set of strings is iterated.
RECURSIVE StrHashFrom(_, _, _, _)
StrHashFrom(s, i, h, seed) ==
    IF i > Len(s) THEN h
    ELSE StrHashFrom(s, i + 1,
                     (h * (31 + 2 * seed) + AtomCode(s[i]) + seed) % 61, seed)

StrHash(s, seed) == StrHashFrom(s, 1, seed, seed)

\* The table acc (entries [s, h], by hash) with entry e added: after the
\* entries of smaller or equal hash.
SetInsert(acc, e) ==
    LET k == Cardinality({i \in 1..Len(acc) : acc[i].h <= e.h})
    IN  SubSeq(acc, 1, k) \o <<e>> \o SubSeq(acc, k + 1, Len(acc))

\* set.add of L[i], L[i+1], ...: a member already in the table is dropped.
RECURSIVE SetAddAll(_, _, _, _)
SetAddAll(L, i, acc, seed) ==
    IF i > Len(L) THEN acc
    ELSE IF \E j \in 1..Len(acc) : acc[j].s = L[i]
         THEN SetAddAll(L, i + 1, acc, seed)
         ELSE SetAddAll(L, i + 1,
                        SetInsert(acc, [s |-> L[i], h |-> StrHash(L[i], seed)]),
                        seed)

RECURSIVE Strings(_, _)
Strings(acc, i) ==
    IF i > Len(acc) THEN <<>> ELSE <<acc[i].s>> \o Strings(acc, i + 1)

ListOfSetKeepsDuplicates(L, seed) == L

\* list(set(L)): the distinct members of L, iterated in hash order; members
\* with equal hashes come in insertion order.
ListOfSet(L, seed) == Strings(SetAddAll(L, 1, <<>>, seed), 1)

\* L[:n]
Take(L, n) == SubSeq(L, 1, IF Len(L) < n THEN Len(L) ELSE n)

-----------------------------------------------------------------------------
(* KeywordResearch._generate_keyword_variations                            *)

Prefixes == << <<"cara">>, <<"tips">>, <<"panduan">>, <<"tutorial">>,
               <<"belajar">>, <<"mengenal">> >>

Suffixes == << <<"untuk", " ", "pemula">>, <<"lengkap">>, <<"terbaik">>,
               <<"2024">>, <<"indonesia">> >>

QuestionWords == << <<"apa">>, <<"bagaimana">>, <<"kapan">>,
                    <<"di", " ", "mana">>, <<"mengapa">> >>

GenerateKeywordVariations(keyword) ==
    [i \in 1..Len(Prefixes) |-> Prefixes[i] \o <<" ">> \o keyword]
        \o [i \in 1..Len(Suffixes) |-> keyword \o <<" ">> \o Suffixes[i]]
        \o [i \in 1..Len(QuestionWords) |->
                QuestionWords[i] \o <<" ">> \o keyword]

-----------------------------------------------------------------------------
(* KeywordResearch._get_google_suggestions / _get_bing_suggestions         *)
(* A lookup answers [status, items]: "error" is an exception of the        *)
(* request or of response.json(), "http" a status other than 200 (its body *)
(* is not read), "short" a Google array with fewer than two members, "ok"  *)
(* a well-formed answer whose suggestions are items.                       *)

SuggestLimit == 10

GetGoogleSuggestions(g) ==
    IF g.status = "ok" THEN Take(g.items, SuggestLimit) ELSE <<>>

GetBingSuggestions(b) ==
    IF b.status = "ok" THEN Take(b.items, SuggestLimit) ELSE <<>>

-----------------------------------------------------------------------------
(* KeywordResearch._get_related_keywords                                   *)
(* set() raises TypeError on an unhashable member: a suggestion entry that  *)
(* is a JSON array where a string was expected.  The except branch then    *)
(* returns the variations alone.                                           *)

Unhashable == <<"[]">>

Hashable(x) == x # Unhashable

RelatedLimit == 20

MergedKeywords(keyword, g, b) ==
    GetGoogleSuggestions(g) \o GetBingSuggestions(b)
        \o GenerateKeywordVariations(keyword)

GetRelatedKeywords(keyword, g, b, seed) ==
    LET related_keywords == MergedKeywords(keyword, g, b)
    IN  IF \A i \in 1..Len(related_keywords) : Hashable(related_keywords[i])
        THEN Take(ListOfSet(related_keywords, seed), RelatedLimit)
        ELSE GenerateKeywordVariations(keyword)

-----------------------------------------------------------------------------
(* KeywordResearch._simple_web_search / _parse_search_results              *)
(* A search answers [status, titles, links]: "error" is an exception of    *)
(* the request, "http" a status other than 200 (its body is not read),     *)
(* "ok" a page whose <h3> titles and href links are titles and links.  A   *)
(* title carries what                                                      *)
(* _extract_question_from_text reads off it; a link is a parsed URL.       *)

ParseLimit == 5

Min(a, b) == IF a < b THEN a ELSE b

ParseSearchResults(page) ==
    [i \in 1..Min(Min(Len(page.titles), ParseLimit), Len(page.links)) |->
        [title |-> page.titles[i], url |-> page.links[i]]]

\* Exceptions are caught inside; a failed search returns [].
SimpleWebSearch(o) == IF o.status = "ok" THEN ParseSearchResults(o) ELSE <<>>

\* urlparse(url).netloc
ExtractDomain(url) == url.netloc

-----------------------------------------------------------------------------
(* KeywordResearch._get_common_questions / _get_real_questions             *)

MinQuestionLen == 10

\* None is <<>>, a question q is <<q>>.
ExtractQuestionFromText(t) ==
    IF t.hasQWord /\ t.cleanLen > MinQuestionLen THEN <<t.text>> ELSE <<>>

RECURSIVE QuestionsOf(_, _)
QuestionsOf(results, i) ==
    IF i > Len(results) THEN <<>>
    ELSE ExtractQuestionFromText(results[i].title) \o QuestionsOf(results, i + 1)

RealQuestionLimit == 5

SearchTerms == <<"apa", "bagaimana", "tips", "panduan">>

RECURSIVE RealQuestionsFrom(_, _)
RealQuestionsFrom(qs, j) ==
    IF j > Len(qs) THEN <<>>
    ELSE QuestionsOf(SimpleWebSearch(qs[j]), 1) \o RealQuestionsFrom(qs, j + 1)

GetRealQuestions(qs) == Take(RealQuestionsFrom(qs, 1), RealQuestionLimit)

QuestionPatterns(keyword) ==
    << <<"Apa itu ">> \o keyword \o <<"?">>,
       <<"Bagaimana cara ">> \o keyword \o <<"?">>,
       <<"Tips ">> \o keyword \o <<" untuk pemula">>,
       <<"Berapa biaya ">> \o keyword \o <<"?">>,
       <<"Di mana bisa ">> \o keyword \o <<"?">>,
       <<"Kapan waktu terbaik untuk ">> \o keyword \o <<"?">>,
       <<"Mengapa perlu ">> \o keyword \o <<"?">>,
       <<"Apa manfaat ">> \o keyword \o <<"?">>,
       <<"Berapa lama waktu ">> \o keyword \o <<"?">>,
       <<"Apa yang diperlukan untuk ">> \o keyword \o <<"?">> >>

QuestionLimit == 15

GetCommonQuestionsOnlyIfAllSucceed(keyword, qs) ==
    IF \A j \in 1..Len(qs) : qs[j].status = "ok"
    THEN Take(QuestionPatterns(keyword) \o GetRealQuestions(qs), QuestionLimit)
    ELSE <<>>

GetCommonQuestions(keyword, qs) ==
    Take(QuestionPatterns(keyword) \o GetRealQuestions(qs), QuestionLimit)

-----------------------------------------------------------------------------
(* KeywordResearch._get_top_serp_results                                   *)

SerpLimit == 5

\* The placeholder results of the except branch and of the fallback dict.
PlaceholderResults(keyword) ==
    << [title |-> <<"Hasil pencarian untuk ">> \o keyword,
        url |-> [netloc |-> "", path |-> "#"], domain |-> "example.com"],
       [title |-> <<"Informasi tentang ">> \o keyword,
        url |-> [netloc |-> "", path |-> "#"], domain |-> "example.com"],
       [title |-> <<"Panduan ">> \o keyword,
        url |-> [netloc |-> "", path |-> "#"], domain |-> "example.com"] >>

\* _simple_web_search never raises, so the except branch is not taken.
GetTopSerpResults(keyword, o) ==
    LET found == Take(SimpleWebSearch(o), SerpLimit)
    IN  [i \in 1..Len(found) |->
            [title |-> found[i].title.text,
             url |-> found[i].url,
             domain |-> ExtractDomain(found[i].url)]]

-----------------------------------------------------------------------------
(* KeywordResearch._analyze_competition / _estimate_search_volume          *)

HighDomains == 4

MediumDomains == 2

AnalyzeCompetitionStrictHigh(top) ==
    LET unique_domains == Cardinality({top[i].domain : i \in 1..Len(top)})
    IN  [level |-> IF unique_domains > HighDomains THEN "Tinggi"
                   ELSE IF unique_domains >= MediumDomains THEN "Sedang"
                   ELSE "Rendah",
         difficulty |-> IF unique_domains > HighDomains THEN "Sulit"
                        ELSE IF unique_domains >= MediumDomains THEN "Menengah"
                        ELSE "Mudah",
         unique_domains |-> unique_domains,
         total_results |-> Len(top)]

AnalyzeCompetition(top) ==
    LET unique_domains == Cardinality({top[i].domain : i \in 1..Len(top)})
    IN  [level |-> IF unique_domains >= HighDomains THEN "Tinggi"
                   ELSE IF unique_domains >= MediumDomains THEN "Sedang"
                   ELSE "Rendah",
         difficulty |-> IF unique_domains >= HighDomains THEN "Sulit"
                        ELSE IF unique_domains >= MediumDomains THEN "Menengah"
                        ELSE "Mudah",
         unique_domains |-> unique_domains,
         total_results |-> Len(top)]

EstimateSearchVolumeByLength(keyword) ==
    LET word_count == Len(keyword)
    IN  IF word_count = 1 THEN "Tinggi (10K+ per bulan)"
        ELSE IF word_count = 2 THEN "Sedang (1K-10K per bulan)"
        ELSE "Rendah (<1K per bulan)"

EstimateSearchVolume(keyword) ==
    LET word_count == Len(Split(keyword))
    IN  IF word_count = 1 THEN "Tinggi (10K+ per bulan)"
        ELSE IF word_count = 2 THEN "Sedang (1K-10K per bulan)"
        ELSE "Rendah (<1K per bulan)"

-----------------------------------------------------------------------------
(* KeywordResearch._create_fallback_research                               *)

FallbackRelatedLimit == 10

FallbackUniqueDomains == 3

FallbackTotalResults == 5

CreateFallbackResearch(keyword) ==
    [keyword |-> keyword,
     related_keywords |->
        Take(GenerateKeywordVariations(keyword), FallbackRelatedLimit),
     questions |-> Take(QuestionPatterns(keyword), 5),
     top_results |-> PlaceholderResults(keyword),
     competition |-> [level |-> "Sedang", difficulty |-> "Menengah",
                      unique_domains |-> FallbackUniqueDomains,
                      total_results |-> FallbackTotalResults],
     search_volume |-> "Sedang (1K-10K per bulan)",
     research_date |-> "now"]

-----------------------------------------------------------------------------
(* What the lookups of research_keyword can answer                         *)

\* Entries a suggestion API may send, more than SuggestLimit.
MaxSuggest == 11

\* Titles / links on a result page, more than ParseLimit.
MaxHits == 6

\* Hash seeds of the interpreter, 0..MaxSeed.
MaxSeed == 2

ResearchKeywords ==
    { <<"seo">>, <<"diet", " ", "sehat">>,
      <<"cara", " ", "seo", " ", "lengkap">> }

Failed(status, items) == [status |-> status, items |-> items]

\* Google: the 2nd suggestion equals the variation "cara <keyword>", the
\* 4th repeats the 3rd, the others are new strings.
GoogleItems(keyword, n) ==
    [i \in 1..n |->
        IF i = 2 THEN <<"cara", " ">> \o keyword
        ELSE IF i = 4 THEN <<"g", NumStr[3]>>
        ELSE <<"g", NumStr[i]>>]

GoogleOutcomes(keyword) ==
    {Failed("error", <<>>), Failed("http", GoogleItems(keyword, 3)),
     Failed("short", <<>>)}
        \cup {[status |-> "ok", items |-> GoogleItems(keyword, n)] :
                 n \in {0, 3, MaxSuggest}}

\* Bing: the 1st suggestion is also Google's 1st, the others are new.
BingItems(n) ==
    [i \in 1..n |-> IF i = 1 THEN <<"g", NumStr[1]>> ELSE <<"b", NumStr[i]>>]

\* The last outcome carries an entry whose Txt is not a string.
BingOutcomes ==
    {Failed("error", <<>>), Failed("http", BingItems(2))}
        \cup {[status |-> "ok", items |-> BingItems(n)] : n \in {2, MaxSuggest}}
        \cup {[status |-> "ok", items |-> Append(BingItems(2), Unhashable)]}

DomainNames == <<"", "a.com", "b.com", "c.com", "d.com", "e.com", "f.com",
                 "g.com", "h.com">>

\* The host of the i-th link of a page, by the page's pattern.
LinkHost(pat, i) ==
    CASE pat = "same" -> "a.com"
      [] pat = "pairs" -> DomainNames[((i + 1) \div 2) + 1]
      [] pat = "relative" -> ""
      [] OTHER -> DomainNames[i + 1]

\* A page with n titles for search term w: odd titles hold a question
\* word, the 3rd is too short to be a question; pattern "short" has one
\* link fewer than titles.
Page(w, n, pat) ==
    [status |-> "ok",
     titles |-> [i \in 1..n |->
                    [text |-> <<w, NumStr[i]>>,
                     hasQWord |-> (i % 2 = 1),
                     cleanLen |-> IF i = 3 THEN 8 ELSE 20]],
     links |-> [i \in 1..(IF pat = "short" /\ n > 0 THEN n - 1 ELSE n) |->
                    [netloc |-> LinkHost(pat, i), path |-> "/"]]]

\* A failed search: no page on an exception, an unread page otherwise.
NoPage(status, w) ==
    IF status = "error"
    THEN [status |-> status, titles |-> <<>>, links |-> <<>>]
    ELSE [Page(w, 3, "distinct") EXCEPT !.status = status]

\* The four question searches: each fails or answers a full page.
QSearchOutcomes ==
    {st \in [1..Len(SearchTerms) -> {"error", "http", "ok"}] :
        \A j \in 2..Len(SearchTerms) : st[j] # "http"}

QSearchPages(st) ==
    [j \in 1..Len(SearchTerms) |->
        IF st[j] = "ok" THEN Page(SearchTerms[j], MaxHits, "same")
        ELSE NoPage(st[j], SearchTerms[j])]

SerpPatterns == {"same", "pairs", "relative", "distinct", "short"}

SerpOutcomes ==
    {NoPage("error", "serp"), NoPage("http", "serp")}
        \cup {Page("serp", n, pat) : n \in {0, 3, MaxHits}, pat \in SerpPatterns}

-----------------------------------------------------------------------------
(* KeywordResearch.research_keyword, one step per awaited lookup           *)

ResearchStart ==
    /\ rpc = "idle"
    /\ \E kw \in ResearchKeywords, seed \in 0..MaxSeed :
          /\ rkeyword' = kw
          /\ net' = [net EXCEPT !.seed = seed]
    /\ rpc' = "related"
    /\ UNCHANGED <<related, questions, top_results, research>>
    /\ UNCHANGED nonResVars

ResearchRelated ==
    /\ rpc = "related"
    /\ \E g \in GoogleOutcomes(rkeyword), b \in BingOutcomes :
          /\ net' = [net EXCEPT !.google = g, !.bing = b]
          /\ related' = GetRelatedKeywords(rkeyword, g, b, net.seed)
    /\ rpc' = "questions"
    /\ UNCHANGED <<rkeyword, questions, top_results, research>>
    /\ UNCHANGED nonResVars

ResearchQuestions ==
    /\ rpc = "questions"
    /\ \E st \in QSearchOutcomes :
          /\ net' = [net EXCEPT !.qsearch = st]
          /\ questions' = GetCommonQuestions(rkeyword, QSearchPages(st))
    /\ rpc' = "serp"
    /\ UNCHANGED <<rkeyword, related, top_results, research>>
    /\ UNCHANGED nonResVars

ResearchSerp ==
    /\ rpc = "serp"
    /\ \E o \in SerpOutcomes :
          /\ net' = [net EXCEPT !.serp = o]
          /\ top_results' = GetTopSerpResults(rkeyword, o)
    /\ rpc' = "analyze"
    /\ UNCHANGED <<rkeyword, related, questions, research>>
    /\ UNCHANGED nonResVars

\* _analyze_competition and _estimate_search_volume await nothing, and the
\* dict is returned.  No step lets an exception out, so the except branch
\* of research_keyword (return self._create_fallback_research(keyword)) is
\* not taken.
ResearchReturn ==
    /\ rpc = "analyze"
    /\ research' = [keyword |-> rkeyword,
                    related_keywords |-> related,
                    questions |-> questions,
                    top_results |-> top_results,
                    competition |-> AnalyzeCompetition(top_results),
                    search_volume |-> EstimateSearchVolume(rkeyword),
                    research_date |-> "now"]
    /\ rpc' = "done"
    /\ UNCHANGED <<rkeyword, net, related, questions, top_results>>
    /\ UNCHANGED nonResVars

ResearchInit == GenIdle /\ ResIdle /\ HeuIdle /\ ImgIdle /\ HtmlIdle /\ BatchIdle
        /\ PubIdle /\ StartIdle

ResearchNext ==
    \/ ResearchStart
    \/ ResearchRelated
    \/ ResearchQuestions
    \/ ResearchSerp
    \/ ResearchReturn

SpecResearch == ResearchInit /\ [][ResearchNext]_vars

-----------------------------------------------------------------------------
(* Properties of research_keyword                                          *)

NoDuplicates(L) == \A i, j \in 1..Len(L) : i # j => L[i] # L[j]

Members(L) == {L[i] : i \in 1..Len(L)}

\* related_keywords has been computed.
RelatedKnown == rpc \in {"questions", "serp", "analyze", "done"}

\* C6: for every keyword and every combination of lookup outcomes the
\* related keywords of the result are at most 20 and pairwise different:
\* on the normal path (list(set(...))[:20]), on the exception path of
\* _get_related_keywords (the variations) and on the fallback path (the
\* first variations of _create_fallback_research).
C6_RelatedKeywordsCappedAndDistinct ==
    /\ RelatedKnown => Len(related) <= 20 /\ NoDuplicates(related)
    /\ rpc = "done" =>
          /\ research.related_keywords = related
          /\ Len(research.related_keywords) <= 20
          /\ NoDuplicates(research.related_keywords)
    /\ LET variations == GenerateKeywordVariations(rkeyword)
           fallback == CreateFallbackResearch(rkeyword).related_keywords
       IN  /\ Len(variations) <= 20 /\ NoDuplicates(variations)
           /\ Len(fallback) <= 20 /\ NoDuplicates(fallback)

\* Both suggestion lookups answered more than they may contribute, with
\* repeated entries, and the result holds exactly 20 related keywords.
C6_Witness ==
    /\ rpc = "done"
    /\ net.google.status = "ok" /\ Len(net.google.items) > 10
    /\ net.bing.status = "ok" /\ Len(net.bing.items) > 10
    /\ ~NoDuplicates(net.google.items \o net.bing.items)
    /\ Len(research.related_keywords) = 20

ResearchFields ==
    {"keyword", "related_keywords", "questions", "top_results",
     "competition", "search_volume", "research_date"}

\* What a suggestion lookup contributes: its first 10 entries when it
\* succeeded, nothing when it failed.
Contribution(o) ==
    IF o.status = "ok"
    THEN {o.items[i] : i \in 1..(IF Len(o.items) < 10 THEN Len(o.items) ELSE 10)}
    ELSE {}

\* The results a search contributes: title i with link i, for the first 5
\* titles that have a link, when it succeeded; nothing when it failed.
Hits(page) ==
    IF page.status = "ok"
    THEN {i \in 1..5 : i <= Len(page.titles) /\ i <= Len(page.links)}
    ELSE {}

\* The questions the question searches contribute.
FoundQuestions(st) ==
    UNION {LET page == QSearchPages(st)[j]
           IN  {page.titles[i].text :
                   i \in {k \in Hits(page) : /\ page.titles[k].hasQWord
                                             /\ page.titles[k].cleanLen > 10}} :
           j \in 1..Len(SearchTerms)}

SuggestionPool ==
    Contribution(net.google) \cup Contribution(net.bing)
        \cup Members(GenerateKeywordVariations(rkeyword))

\* Every field is present and a failed lookup contributes nothing.
C7_FieldsAndFailures ==
    /\ DOMAIN research = ResearchFields
    /\ research.keyword = rkeyword
    /\ Members(research.related_keywords) \subseteq SuggestionPool
    /\ \A i \in 1..Len(research.questions) :
          \/ research.questions[i] \in Members(QuestionPatterns(rkeyword))
          \/ research.questions[i] \in FoundQuestions(net.qsearch)
    /\ Len(research.top_results) = Cardinality(Hits(net.serp))

\* C7 as stated: research_keyword returns a result with every field, a
\* failed lookup contributes nothing, and everything the succeeded lookups
\* contribute is in the result.
C7_SucceededContributionsAllIncluded ==
    rpc = "done" =>
        /\ C7_FieldsAndFailures
        /\ SuggestionPool \subseteq Members(research.related_keywords)
        /\ FoundQuestions(net.qsearch) \subseteq Members(research.questions)
        /\ \A i \in Hits(net.serp) :
              /\ research.top_results[i].title = net.serp.titles[i].text
              /\ research.top_results[i].url = net.serp.links[i]

\* C7, amended: research_keyword returns a result with every field and a
\* failed lookup contributes nothing; what the succeeded lookups contribute
\* is included up to the caps.  The related keywords are 20 members (all, if
\* there are fewer) of the deduplicated pool of suggestions and variations,
\* or the variations alone when a suggestion is unhashable; the questions
\* are the 10 patterns followed by the first 5 questions found; the top
\* results are the hits of the search.
C7_SucceededContributionsUpToCaps ==
    rpc = "done" =>
        /\ C7_FieldsAndFailures
        /\ IF Unhashable \in SuggestionPool
           THEN research.related_keywords = GenerateKeywordVariations(rkeyword)
           ELSE /\ Len(research.related_keywords) =
                      (IF Cardinality(SuggestionPool) < 20
                       THEN Cardinality(SuggestionPool) ELSE 20)
                /\ NoDuplicates(research.related_keywords)
        /\ LET found == Cardinality(FoundQuestions(net.qsearch))
           IN  Len(research.questions) = 10 + (IF found < 5 THEN found ELSE 5)
        /\ \A i \in 1..10 : research.questions[i] = QuestionPatterns(rkeyword)[i]
        /\ \A i \in 11..Len(research.questions) :
              research.questions[i] \in FoundQuestions(net.qsearch)
        /\ \A i \in Hits(net.serp) :
              /\ research.top_results[i].title = net.serp.titles[i].text
              /\ research.top_results[i].url = net.serp.links[i]

\* Google failed, Bing succeeded, one question search succeeded and the
\* top-result search failed: the result holds Bing's suggestions and the
\* questions found, and no top results.
C7_Witness ==
    /\ rpc = "done"
    /\ net.google.status = "error"
    /\ net.bing.status = "ok" /\ Len(net.bing.items) = 2
    /\ Contribution(net.bing) \subseteq Members(research.related_keywords)
    /\ net.qsearch = <<"error", "ok", "error", "error">>
    /\ Len(research.questions) = 12
    /\ net.serp.status = "http"
    /\ research.top_results = <<>>

AllLookupsFailed ==
    /\ net.google.status = "error"
    /\ net.bing.status = "error"
    /\ \A j \in 1..Len(SearchTerms) : net.qsearch[j] = "error"
    /\ net.serp.status = "error"

\* C8: when every lookup fails, the result is the fallback result of
\* _create_fallback_research: its templated questions, its placeholder top
\* results (not an empty list), competition level 'Sedang' and search
\* volume 'Sedang (1K-10K per bulan)'.
C8_AllFailedGivesFallbackResult ==
    (rpc = "done" /\ AllLookupsFailed) =>
        /\ research.questions = CreateFallbackResearch(rkeyword).questions
        /\ research.top_results = CreateFallbackResearch(rkeyword).top_results
        /\ research.top_results # <<>>
        /\ research.competition.level = "Sedang"
        /\ research.search_volume = "Sedang (1K-10K per bulan)"

-----------------------------------------------------------------------------
(* The heuristics applied to enumerated inputs                             *)

\* Longest keyword, in atoms.
MaxKwLen == 7

\* Longest list of top results.
MaxTop == 5

\* Distinct hosts among the top results.
NumDomains == 6

KwAtoms == {"seo", " ", "\t"}

\* Every keyword of at most len atoms.
HeuKeywords(len) == UNION {[1..n -> KwAtoms] : n \in 0..len}

RefKeywords ==
    { <<>>, <<"seo">>, <<"seo", " ", "dasar">>,
      <<"belajar", " ", "seo", " ", "dasar">>,
      <<" ", "seo", "\t", "dasar", " ", " ", "seo", " ", "seo">> }

Domains(k) == {DomainNames[i] : i \in 1..k}

TopResult(d) == [title |-> <<"t">>, url |-> [netloc |-> d, path |-> "/"],
                 domain |-> d]

\* Every list of at most len results on the first k hosts.
TopLists(len, k) ==
    UNION {{[i \in 1..n |-> TopResult(f[i])] : f \in [1..n -> Domains(k)]} :
             n \in 0..len}

HeuAnalyze ==
    /\ hpc = "idle"
    /\ \E top \in TopLists(MaxTop, NumDomains) :
          /\ htop' = top
          /\ hcomp' = AnalyzeCompetition(top)
    /\ hpc' = "analyzed"
    /\ UNCHANGED <<hkeyword, hkeyword2, hvol, hvol2>>
    /\ UNCHANGED nonHeuVars

HeuEstimate ==
    /\ hpc = "idle"
    /\ \E k \in HeuKeywords(MaxKwLen), k2 \in RefKeywords :
          /\ hkeyword' = k
          /\ hkeyword2' = k2
          /\ hvol' = EstimateSearchVolume(k)
          /\ hvol2' = EstimateSearchVolume(k2)
    /\ hpc' = "estimated"
    /\ UNCHANGED <<htop, hcomp>>
    /\ UNCHANGED nonHeuVars

HeuInit == GenIdle /\ ResIdle /\ HeuIdle /\ ImgIdle /\ HtmlIdle /\ BatchIdle
        /\ PubIdle /\ StartIdle

HeuNext == HeuAnalyze \/ HeuEstimate

SpecHeuristics == HeuInit /\ [][HeuNext]_vars

-----------------------------------------------------------------------------
(* Properties of the heuristics                                            *)

DistinctDomains(top) == Cardinality({top[i].domain : i \in 1..Len(top)})

\* C9: the competition level depends only on the number u of distinct
\* domains among the top results: u >= 4 gives Tinggi / Sulit, 2 <= u <= 3
\* gives Sedang / Menengah, u <= 1 (an empty list included) gives Rendah /
\* Mudah; five results on one domain give Rendah, five results on five
\* domains give Tinggi.
C9_CompetitionByDistinctDomains ==
    hpc = "analyzed" =>
        LET u == DistinctDomains(htop)
        IN  /\ hcomp.unique_domains = u
            /\ hcomp.total_results = Len(htop)
            /\ u >= 4 => hcomp.level = "Tinggi" /\ hcomp.difficulty = "Sulit"
            /\ (u >= 2 /\ u <= 3) =>
                  hcomp.level = "Sedang" /\ hcomp.difficulty = "Menengah"
            /\ u <= 1 => hcomp.level = "Rendah" /\ hcomp.difficulty = "Mudah"
            /\ (Len(htop) = 5 /\ \A i \in 1..5 : htop[i].domain = htop[1].domain)
                  => hcomp.level = "Rendah"
            /\ (Len(htop) = 5 /\ NoDuplicates([i \in 1..5 |-> htop[i].domain]))
                  => hcomp.level = "Tinggi"

\* Five results on exactly four domains are rated Tinggi.
C9_Witness ==
    /\ hpc = "analyzed"
    /\ Len(htop) = 5
    /\ DistinctDomains(htop) = 4
    /\ hcomp.level = "Tinggi"

\* The whitespace-separated words of s: the positions where a word starts.
WordCount(s) ==
    Cardinality({i \in 1..Len(s) :
                    ~IsSpace(s[i]) /\ (i = 1 \/ IsSpace(s[i - 1]))})

Bucket(n) ==
    CASE n = 1 -> "Tinggi (10K+ per bulan)"
      [] n = 2 -> "Sedang (1K-10K per bulan)"
      [] n >= 3 -> "Rendah (<1K per bulan)"

\* C10: the search-volume estimate is a function of the keyword's number
\* of whitespace-separated words: 1 word gives the high bucket, 2 words the
\* medium bucket, 3 or more the low bucket, and two keywords with the same
\* number of words get the same bucket.
C10_VolumeByWordCount ==
    hpc = "estimated" =>
        /\ WordCount(hkeyword) >= 1 => hvol = Bucket(WordCount(hkeyword))
        /\ WordCount(hkeyword2) >= 1 => hvol2 = Bucket(WordCount(hkeyword2))
        /\ WordCount(hkeyword) = WordCount(hkeyword2) => hvol = hvol2

\* "belajar seo dasar" and another keyword of three words, with runs of
\* whitespace, both get the low bucket.
C10_Witness ==
    /\ hpc = "estimated"
    /\ hkeyword2 = <<"belajar", " ", "seo", " ", "dasar">>
    /\ hvol2 = "Rendah (<1K per bulan)"
    /\ hkeyword # hkeyword2
    /\ Len(hkeyword) > 5
    /\ WordCount(hkeyword) = 3
    /\ hvol = hvol2

-----------------------------------------------------------------------------
(* ImageGenerator                                                          *)
(* An entry of an image list is [kind, name]: a remote URL or a local      *)
(* path.                                                                   *)

Url(u) == [kind |-> "url", name |-> u]

LocalPath(n) == [kind |-> "path", name |-> n]

\* self.free_image_urls
FreeImageUrls == <<Url("f1"), Url("f2"), Url("f3"), Url("f4"), Url("f5")>>

FallbackSample == 3

\* random.sample(population, k): every arrangement of k distinct members.
RandomSample(population, k) ==
    {[i \in 1..k |-> population[f[i]]] :
        f \in {g \in [1..k -> 1..Len(population)] :
                 \A i, j \in 1..k : i # j => g[i] # g[j]}}

GetFallbackImagesWholePool == {FreeImageUrls}

GetFallbackImages ==
    RandomSample(FreeImageUrls, Min(FallbackSample, Len(FreeImageUrls)))

\* output/images/<keyword>_ai.jpg
AiImagePath == LocalPath("ai")

\* _generate_free_ai_images: one request when hf_client exists; the image
\* is kept when the answer is 200 and the file could be written.
GenerateFreeAiImages(hf_client, answer) ==
    IF hf_client /\ answer = "ok" THEN <<AiImagePath>> ELSE <<>>

\* The URLs of the entries that have one.
RECURSIVE NonEmptyUrls(_, _)
NonEmptyUrls(urls, i) ==
    IF i > Len(urls) THEN <<>>
    ELSE (IF urls[i] = "" THEN <<>> ELSE <<Url(urls[i])>>)
             \o NonEmptyUrls(urls, i + 1)

\* _get_unsplash_images / _get_pixabay_images / _get_pexels_images: an
\* answer is [status, urls]; "error" is an exception of the request, "http"
\* a status other than 200 (its body is not read), "ok" a JSON answer whose
\* entries carry urls ("" for an entry without the URL field).
GetUnsplashImages(a) == IF a.status = "ok" THEN NonEmptyUrls(a.urls, 1) ELSE <<>>

GetPixabayImages(a) == IF a.status = "ok" THEN NonEmptyUrls(a.urls, 1) ELSE <<>>

GetPexelsImages(a) == IF a.status = "ok" THEN NonEmptyUrls(a.urls, 1) ELSE <<>>

\* Whether the download of entry i of the pool succeeds, by pattern.
FetchPatterns == {"all", "none", "odd", "even", "first_fails", "last_only"}

Fetched(pat, i, n) ==
    CASE pat = "all" -> "ok"
      [] pat = "none" -> "error"
      [] pat = "odd" -> IF i % 2 = 1 THEN "ok" ELSE "http"
      [] pat = "even" -> IF i % 2 = 0 THEN "ok" ELSE "error"
      [] pat = "first_fails" -> IF i = 1 THEN "http" ELSE "ok"
      [] OTHER -> IF i = n THEN "ok" ELSE "error"

\* session.get of a local path raises; a URL answers by the pattern.
FetchOutcome(image_urls, pat, i) ==
    IF image_urls[i].kind = "path" THEN "error"
    ELSE Fetched(pat, i, Len(image_urls))

SaveImagesLocallyAbortOnFailure(image_urls, pat) ==
    LET first_failure ==
            IF \A i \in 1..Len(image_urls) :
                   FetchOutcome(image_urls, pat, i) = "ok"
            THEN Len(image_urls) + 1
            ELSE CHOOSE i \in 1..Len(image_urls) :
                    /\ FetchOutcome(image_urls, pat, i) # "ok"
                    /\ \A j \in 1..(i - 1) :
                          FetchOutcome(image_urls, pat, j) = "ok"
    IN  [i \in 1..(first_failure - 1) |-> LocalPath(NumStr[i])]

\* The loop of _save_images_locally: entry i is saved as image_<i>.jpg
\* when its download answers 200 and the file is written.
RECURSIVE SaveFrom(_, _, _)
SaveFrom(image_urls, pat, i) ==
    IF i > Len(image_urls) THEN <<>>
    ELSE (IF FetchOutcome(image_urls, pat, i) = "ok"
          THEN <<LocalPath(NumStr[i])>> ELSE <<>>)
             \o SaveFrom(image_urls, pat, i + 1)

SaveImagesLocally(image_urls, pat) == SaveFrom(image_urls, pat, 1)

-----------------------------------------------------------------------------
(* What the requests of generate_images can answer                         *)

\* Largest max_images_per_article.
MaxCap == 4

ImageSettings ==
    [max_images_per_article : 0..MaxCap, unsplash_api_key : BOOLEAN,
     pixabay_api_key : BOOLEAN, pexels_api_key : BOOLEAN,
     hf_client : BOOLEAN]

HfAnswers == {"error", "http", "ok"}

Answer(status, urls) == [status |-> status, urls |-> urls]

\* Unsplash: "s" is a picture that Pixabay sends as well.
UnsplashAnswers ==
    {Answer("error", <<>>), Answer("http", <<"a1">>), Answer("ok", <<>>),
     Answer("ok", <<"s">>), Answer("ok", <<"a1", "", "a2", "a3">>)}

PixabayAnswers ==
    {Answer("error", <<>>), Answer("ok", <<"s", "b1">>)}

\* Pexels: "f1" is also a picture of the built-in pool.
PexelsAnswers ==
    {Answer("http", <<"c1">>), Answer("ok", <<"c1">>), Answer("ok", <<"f1", "c1">>)}

-----------------------------------------------------------------------------
(* ImageGenerator.generate_images, one step per awaited call               *)

ImagesStart ==
    /\ ipc = "idle"
    /\ isettings' \in ImageSettings
    /\ ipc' = "ai"
    /\ UNCHANGED <<inet, queried, images, fallback_images, saved_images,
                   iresult, icaught>>
    /\ UNCHANGED nonImgVars

ImagesAi ==
    /\ ipc = "ai"
    /\ IF isettings.hf_client
       THEN \E a \in HfAnswers :
               /\ inet' = [inet EXCEPT !.huggingface = a]
               /\ images' = images \o GenerateFreeAiImages(TRUE, a)
               /\ queried' = Append(queried, "huggingface")
       ELSE /\ images' = images \o GenerateFreeAiImages(FALSE, "none")
            /\ UNCHANGED <<inet, queried>>
    /\ ipc' = "unsplash"
    /\ UNCHANGED <<isettings, fallback_images, saved_images, iresult, icaught>>
    /\ UNCHANGED nonImgVars

StockUnsplash ==
    /\ ipc = "unsplash"
    /\ IF isettings.unsplash_api_key
       THEN \E a \in UnsplashAnswers :
               /\ inet' = [inet EXCEPT !.unsplash = a]
               /\ images' = images \o GetUnsplashImages(a)
               /\ queried' = Append(queried, "unsplash")
       ELSE UNCHANGED <<inet, images, queried>>
    /\ ipc' = "pixabay"
    /\ UNCHANGED <<isettings, fallback_images, saved_images, iresult, icaught>>
    /\ UNCHANGED nonImgVars

StockPixabayOnlyIfEmpty ==
    /\ ipc = "pixabay"
    /\ IF isettings.pixabay_api_key /\ images = <<>>
       THEN \E a \in PixabayAnswers :
               /\ inet' = [inet EXCEPT !.pixabay = a]
               /\ images' = images \o GetPixabayImages(a)
               /\ queried' = Append(queried, "pixabay")
       ELSE UNCHANGED <<inet, images, queried>>
    /\ ipc' = "pexels"
    /\ UNCHANGED <<isettings, fallback_images, saved_images, iresult, icaught>>
    /\ UNCHANGED nonImgVars

StockPixabay ==
    /\ ipc = "pixabay"
    /\ IF isettings.pixabay_api_key
       THEN \E a \in PixabayAnswers :
               /\ inet' = [inet EXCEPT !.pixabay = a]
               /\ images' = images \o GetPixabayImages(a)
               /\ queried' = Append(queried, "pixabay")
       ELSE UNCHANGED <<inet, images, queried>>
    /\ ipc' = "pexels"
    /\ UNCHANGED <<isettings, fallback_images, saved_images, iresult, icaught>>
    /\ UNCHANGED nonImgVars

StockPexels ==
    /\ ipc = "pexels"
    /\ IF isettings.pexels_api_key
       THEN \E a \in PexelsAnswers :
               /\ inet' = [inet EXCEPT !.pexels = a]
               /\ images' = images \o GetPexelsImages(a)
               /\ queried' = Append(queried, "pexels")
       ELSE UNCHANGED <<inet, images, queried>>
    /\ ipc' = "fallback"
    /\ UNCHANGED <<isettings, fallback_images, saved_images, iresult, icaught>>
    /\ UNCHANGED nonImgVars

\* if len(images) < max_images_per_article: images.extend(fallback)
ImagesFallback ==
    /\ ipc = "fallback"
    /\ IF Len(images) < isettings.max_images_per_article
       THEN \E sample \in GetFallbackImages :
               /\ fallback_images' = sample
               /\ images' = images \o sample
       ELSE UNCHANGED <<fallback_images, images>>
    /\ ipc' = "save"
    /\ UNCHANGED <<isettings, inet, queried, saved_images, iresult, icaught>>
    /\ UNCHANGED nonImgVars

\* _save_images_locally and the return.  os.makedirs stands outside the
\* loop's try: its exception reaches the except branch of generate_images.
ImagesSave ==
    /\ ipc = "save"
    /\ \E made \in BOOLEAN, pat \in FetchPatterns :
          IF made
          THEN /\ inet' = [inet EXCEPT !.makedirs = "ok", !.fetch = pat]
               /\ saved_images' = SaveImagesLocally(images, pat)
               /\ iresult' = Take(saved_images', isettings.max_images_per_article)
               /\ ipc' = "done"
               /\ UNCHANGED icaught
          ELSE /\ pat = "all"
               /\ inet' = [inet EXCEPT !.makedirs = "error"]
               /\ icaught' = TRUE
               /\ ipc' = "except"
               /\ UNCHANGED <<saved_images, iresult>>
    /\ UNCHANGED <<isettings, queried, images, fallback_images>>
    /\ UNCHANGED nonImgVars

\* except Exception: return self._get_fallback_images(keyword)
ImagesExcept ==
    /\ ipc = "except"
    /\ iresult' \in GetFallbackImages
    /\ ipc' = "done"
    /\ UNCHANGED <<isettings, inet, queried, images, fallback_images,
                   saved_images, icaught>>
    /\ UNCHANGED nonImgVars

ImagesInit == GenIdle /\ ResIdle /\ HeuIdle /\ ImgIdle /\ HtmlIdle /\ BatchIdle
        /\ PubIdle /\ StartIdle

ImagesNext ==
    \/ ImagesStart
    \/ ImagesAi
    \/ StockUnsplash
    \/ StockPixabay
    \/ StockPexels
    \/ ImagesFallback
    \/ ImagesSave
    \/ ImagesExcept

SpecImages == ImagesInit /\ [][ImagesNext]_vars

-----------------------------------------------------------------------------
(* Properties of generate_images                                           *)

Cap == isettings.max_images_per_article

\* C11: the list returned by generate_images has between 0 and
\* max_images_per_article entries, for every cap >= 0 and every answer of
\* the providers, the downloads and the filesystem, the except branch of
\* generate_images included.
C11_ResultWithinCap ==
    ipc = "done" => Len(iresult) <= Cap

\* The fallback step of generate_images is over.
PoolKnown == ipc \in {"save", "except", "done"}

\* The pool combined from the AI provider and the stock providers.
CombinedPool == SubSeq(images, 1, Len(images) - Len(fallback_images))

\* C12: when the combined pool has fewer than cap entries, distinct
\* entries of the built-in pool are appended until the candidate pool has
\* cap entries or all 5 built-in images are added; when it has at least cap
\* entries nothing is appended.
C12_FallbackFillsUpToCap ==
    PoolKnown =>
        /\ NoDuplicates(fallback_images)
        /\ Members(fallback_images) \subseteq Members(FreeImageUrls)
        /\ Len(CombinedPool) >= Cap => fallback_images = <<>>
        /\ Len(CombinedPool) < Cap =>
              Len(fallback_images) =
                  (IF Cap - Len(CombinedPool) < 5
                   THEN Cap - Len(CombinedPool) ELSE 5)

StockProviders == <<"unsplash", "pixabay", "pexels">>

HasKey(p) ==
    CASE p = "unsplash" -> isettings.unsplash_api_key
      [] p = "pixabay" -> isettings.pixabay_api_key
      [] p = "pexels" -> isettings.pexels_api_key

Count(L, x) == Cardinality({i \in 1..Len(L) : L[i] = x})

IsStock(p) == p \in Members(StockProviders)

\* What stock provider p sent in this call: the URLs of a 200 answer.
Sent(p) ==
    IF HasKey(p) /\ inet[p].status = "ok"
    THEN LET urls == SelectSeq(inet[p].urls, LAMBDA u : u # "")
         IN  [i \in 1..Len(urls) |-> Url(urls[i])]
    ELSE <<>>

\* C13: the stock providers are not a fallback chain.  Once the stock step
\* is over, every provider with an API key was queried exactly once,
\* whatever the earlier providers answered, a provider without a key was
\* not queried, the queries were made in the order Unsplash, Pixabay,
\* Pexels, and the pool holds their results concatenated in that order.
C13_EveryConfiguredStockProviderQueried ==
    ipc \in {"fallback", "save", "except", "done"} =>
        /\ \A i \in 1..Len(StockProviders) :
              Count(queried, StockProviders[i]) =
                  (IF HasKey(StockProviders[i]) THEN 1 ELSE 0)
        /\ SelectSeq(queried, IsStock) = SelectSeq(StockProviders, HasKey)
        /\ \E ai \in {<<>>, <<AiImagePath>>} :
              images = ai \o Sent("unsplash") \o Sent("pixabay")
                          \o Sent("pexels") \o fallback_images

\* All three have a key; Unsplash sent three pictures, Pixabay failed and
\* Pexels was still queried and sent pictures.
C13_Witness ==
    /\ ipc = "done"
    /\ queried = <<"unsplash", "pixabay", "pexels">>
    /\ Len(Sent("unsplash")) = 3
    /\ inet.pixabay.status = "error"
    /\ Len(Sent("pexels")) = 2
    /\ Len(images) = 5

PathIndex(e) == CHOOSE i \in 1..Len(NumStr) : NumStr[i] = e.name

\* C14: an entry whose retrieval fails is dropped, and only that entry.
\* When generate_images returns from _save_images_locally, the saved
\* entries are exactly the pool entries whose retrieval succeeded, in pool
\* order, the result is their first cap, and with no entry retrieved the
\* result is empty.
C14_OnlyFailedEntriesDropped ==
    (ipc = "done" /\ ~icaught) =>
        /\ \A i \in 1..Len(images) :
              (FetchOutcome(images, inet.fetch, i) = "ok")
                  <=> (LocalPath(NumStr[i]) \in Members(saved_images))
        /\ \A k \in 1..Len(saved_images) :
              /\ saved_images[k].kind = "path"
              /\ PathIndex(saved_images[k]) \in 1..Len(images)
        /\ \A k, l \in 1..Len(saved_images) :
              k < l => PathIndex(saved_images[k]) < PathIndex(saved_images[l])
        /\ Len(iresult) = (IF Len(saved_images) < Cap
                           THEN Len(saved_images) ELSE Cap)
        /\ \A k \in 1..Len(iresult) : iresult[k] = saved_images[k]
        /\ (\A i \in 1..Len(images) :
               FetchOutcome(images, inet.fetch, i) # "ok") => iresult = <<>>

\* The first retrieval failed, the following ones succeeded and fill the
\* result.
C14_Witness ==
    /\ ipc = "done" /\ ~icaught
    /\ Len(images) >= 4
    /\ images[1].kind = "url"
    /\ inet.fetch = "first_fails"
    /\ Cap = 3
    /\ iresult = <<LocalPath("2"), LocalPath("3"), LocalPath("4")>>

\* C15: the pool is deduplicated before it is cut to the cap: no two
\* entries of the result were retrieved from the same URL.
C15_ResultHasNoDuplicateImage ==
    (ipc = "done" /\ ~icaught) =>
        \A k, l \in 1..Len(iresult) :
            k # l => images[PathIndex(iresult[k])] # images[PathIndex(iresult[l])]

-----------------------------------------------------------------------------
(* ContentGenerator.build_html / _build_image_html                         *)
(* A member of the content dict is [py, v]: its Python type and its value. *)
(* A formatted value is [as, text]: the type it was formatted from and     *)
(* its text; html is the record of the values put into the template.       *)

Member(py, v) == [py |-> py, v |-> v]

\* The members of a document of the content schema, with their types.
Tagged(d) ==
    [f \in DOMAIN d |->
        Member(IF f = "keywords" THEN "strlist"
               ELSE IF f = "word_count" THEN "int" ELSE "str", d[f])]

\* content.get(f, default)
Get(d, f, default) == IF f \in DOMAIN d THEN d[f] ELSE default

\* An f-string field: str() of any value.
Format(m) == [as |-> m.py, text |-> m.v]

\* ', '.join(list of str)
RECURSIVE JoinStrings(_, _)
JoinStrings(L, i) ==
    IF i > Len(L) THEN <<>>
    ELSE L[i] \o (IF i < Len(L) THEN <<", ">> ELSE <<>>) \o JoinStrings(L, i + 1)

\* ', '.join(x): the members of a list of str, or the characters of a
\* str, are joined; None, a number or a list holding a non-string raises
\* TypeError.
Join(m) ==
    IF m.py \in {"strlist", "str"}
    THEN [ok |-> TRUE, text |-> JoinStrings(m.v, 1)]
    ELSE [ok |-> FALSE, text |-> <<>>]

\* _build_image_html: "" for no images, else one <img> per entry with
\* alt "Gambar <i>" inside the container; <<>> is "" and the container
\* with its images is a non-empty sequence.
BuildImageHtml(imgs) ==
    IF imgs = <<>> THEN <<>>
    ELSE <<"<div class=\"image-container\">">>
            \o [i \in 1..Len(imgs) |-> [src |-> imgs[i], alt |-> i]]
            \o <<"</div>">>

\* build_html: content.get needs a dict (AttributeError otherwise); the
\* date is read from the wall clock while the template is filled.
BuildHtml(keyword, c, imgs, now) ==
    IF c.type # "dict" THEN [ok |-> FALSE, html |-> EmptyDict]
    ELSE IF ~Join(Get(c.val, "keywords", Member("strlist", <<>>))).ok
    THEN [ok |-> FALSE, html |-> EmptyDict]
    ELSE [ok |-> TRUE,
          html |->
            [title |-> Format(Get(c.val, "title", Member("str", <<keyword>>))),
             meta_description |->
                Format(Get(c.val, "meta_description", Member("str", <<>>))),
             meta_keywords |->
                Join(Get(c.val, "keywords", Member("strlist", <<>>))).text,
             keyword |-> keyword,
             word_count |-> Format(Get(c.val, "word_count", Member("int", 0))),
             published |-> now,
             h1 |-> Format(Get(c.val, "title", Member("str", <<keyword>>))),
             body |-> Format(Get(c.val, "content", Member("str", <<>>))),
             images |-> BuildImageHtml(imgs),
             summary |-> Format(Get(c.val, "summary", Member("str", <<>>)))]]

\* datetime.now().strftime('%Y-%m-%d') on consecutive days.
Dates == <<"2024-01-01", "2024-01-02">>

\* keywords members that are not a list of strings: null, the numbers
\* [1, 2], the bare string "seo" (held as its characters), and the empty
\* list.
OddKeywords ==
    {Member("none", <<>>), Member("intlist", << <<"1">>, <<"2">> >>),
     Member("str", << <<"s">>, <<"e">>, <<"o">> >>), Member("strlist", <<>>)}

\* The values generate_content can return: the parsed answer of a provider
\* (an object, null, an array), the template and the fallback content.
HtmlContents(kw) ==
    {NoneVal, ListVal}
        \cup {DictVal(Tagged(AiDoc(F))) : F \in AiFieldSets("content")}
        \cup {DictVal(Tagged(SimpleContent)),
              DictVal(Tagged(CreateFallbackContent(kw, CreateFallbackOutline(kw))))}
        \cup {DictVal([Tagged(AiDoc(ContentFields)) EXCEPT !.keywords = m]) :
                 m \in OddKeywords}

HtmlImages ==
    {<<>>, <<LocalPath("1")>>,
     <<LocalPath("1"), LocalPath("2"), LocalPath("3")>>,
     <<Url("f1"), Url("f2"), Url("f3")>>}

\* The first call.
BuildHtmlOnce ==
    /\ bpc = 0
    /\ \E kw \in GenKeywords, imgs \in HtmlImages, d \in 1..Len(Dates) :
       \E c \in HtmlContents(kw) :
          /\ bkeyword' = kw
          /\ bcontent' = c
          /\ bimages' = imgs
          /\ bnow' = <<d>>
          /\ html' = <<BuildHtml(kw, c, imgs, Dates[d])>>
    /\ bpc' = 1
    /\ UNCHANGED nonHtmlVars

\* A second call with the same arguments, at the same time or later.
BuildHtmlAgain ==
    /\ bpc = 1
    /\ \E d \in bnow[1]..Len(Dates) :
          /\ bnow' = Append(bnow, d)
          /\ html' = Append(html, BuildHtml(bkeyword, bcontent, bimages, Dates[d]))
    /\ bpc' = 2
    /\ UNCHANGED <<bkeyword, bcontent, bimages>>
    /\ UNCHANGED nonHtmlVars

AssembleInit == GenIdle /\ ResIdle /\ HeuIdle /\ ImgIdle /\ HtmlIdle /\ BatchIdle
        /\ PubIdle /\ StartIdle

AssembleNext == BuildHtmlOnce \/ BuildHtmlAgain

SpecAssemble == AssembleInit /\ [][AssembleNext]_vars

-----------------------------------------------------------------------------
(* Properties of build_html                                                *)

\* C16: two calls of build_html with identical keyword, content and images
\* return identical HTML whatever the wall-clock time of each call.
C16_SameInputsSameHtml ==
    bpc = 2 => html[1] = html[2]

EmptyText(x) == x.text = <<>>

\* C17: build_html never throws.  For every content value that
\* generate_content can return and every image list it returns a document;
\* a missing member is rendered as the empty string (the title as the
\* keyword, the word count as 0), keywords that are null or not strings as
\* the empty string, and the image block is empty exactly when the image
\* list is empty.
C17_BuildHtmlNeverThrows ==
    bpc >= 1 =>
        /\ html[1].ok
        /\ (html[1].html.images = <<>>) <=> (bimages = <<>>)
        /\ \A f \in {"meta_description", "summary"} :
              f \notin DOMAIN bcontent.val => EmptyText(html[1].html[f])
        /\ "content" \notin DOMAIN bcontent.val => EmptyText(html[1].html.body)
        /\ "title" \notin DOMAIN bcontent.val =>
              html[1].html.title.text = <<bkeyword>>
        /\ ("keywords" \notin DOMAIN bcontent.val
               \/ bcontent.val.keywords.py \in {"none", "intlist"})
              => html[1].html.meta_keywords = <<>>

\* The members of L in the order of their first occurrence.
RECURSIVE FirstOccurrences(_, _)
FirstOccurrences(L, i) ==
    IF i > Len(L) THEN <<>>
    ELSE (IF \E j \in 1..(i - 1) : L[j] = L[i] THEN <<>> ELSE <<L[i]>>)
             \o FirstOccurrences(L, i + 1)

\* The merged sequence of the running call.
Merged == MergedKeywords(rkeyword, net.google, net.bing)

\* C23: the related keywords are the first 20 distinct entries of the
\* merged sequence (Google, then Bing, then the variations) in merge
\* order, so the lookup results alone determine which entries are kept
\* and their order.
C23_RelatedKeywordsInMergeOrder ==
    (RelatedKnown /\ \A i \in 1..Len(Merged) : Hashable(Merged[i])) =>
        related = Take(FirstOccurrences(Merged, 1), 20)

-----------------------------------------------------------------------------
(* The pipeline of one keyword (cli.py process_single_keyword, main.py     *)
(* process_keywords)                                                       *)
(*                                                                         *)
(* One iteration calls research_keyword, generate_outline,                 *)
(* generate_content, generate_images and build_html in that order and then *)
(* writes the file.  What the providers did is an input of the iteration:  *)
(* o1 and o2 are what _try_ai_generation returned for the outline and for  *)
(* the content, im is what generate_images returned.                       *)

\* _try_ai_generation: the template when every provider call failed or no
\* client exists, else the text of the first provider that answered.
\* The answers kept here: a whole document, the JSON text null, and text
\* that is not JSON.
ChainOutcomes(t) ==
    {[failed |-> TRUE, text |-> GenerateSimpleContent(t)]}
        \cup {[failed |-> FALSE, text |-> x] :
                 x \in {y \in ProviderTexts(t) :
                          \/ y.kind \in {"null", "nonjson"}
                          \/ y = Text("obj", AiDoc(SchemaFields(t)))}}

\* generate_content: the parsed answer, else the fallback content of the
\* outline; raises AttributeError when that outline is not a dict.
ContentOf(kw, ol, r) ==
    IF Truthy(r) /\ JsonLoads(r).ok THEN [ok |-> TRUE, value |-> JsonLoads(r).value]
    ELSE IF ol.type = "dict"
    THEN [ok |-> TRUE, value |-> DictVal(CreateFallbackContent(kw, ol.val))]
    ELSE [ok |-> FALSE, value |-> Unset]

\* A parsed document with the types of its members.
TaggedValue(c) == IF c.type = "dict" THEN DictVal(Tagged(c.val)) ELSE c

\* generate_images never raises.  With every image provider failing the
\* pool is the fallback sample: its downloads, none of them, or (when the
\* directory cannot be made) the sample itself.
PipelineImages ==
    LET sample == <<Url("f1"), Url("f2"), Url("f3")>>
    IN  {[failed |-> TRUE, images |-> SaveImagesLocally(sample, "all")],
         [failed |-> TRUE, images |-> SaveImagesLocally(sample, "none")],
         [failed |-> TRUE, images |-> sample],
         [failed |-> FALSE, images |-> <<LocalPath("1")>>]}

\* Steps 1 to 5 of an iteration: error is the exception that left the try
\* block ("none": build_html returned).
Pipeline(kw, o1, o2, imgs, now) ==
    LET outline_ == OutlineOf(kw, o1.text)
        c == ContentOf(kw, outline_, o2.text)
        h == BuildHtml(kw, TaggedValue(c.value), imgs, now)
    IN  IF ~c.ok THEN [error |-> "AttributeError", step |-> "generate_content"]
        ELSE IF ~h.ok THEN [error |-> "AttributeError", step |-> "build_html"]
        ELSE [error |-> "none", step |-> "build_html"]

\* cli.py step 6: os.makedirs and open raise OSError when the file system
\* refuses.
SaveCli(fs_ok) ==
    IF fs_ok THEN [error |-> "none", step |-> "save"]
    ELSE [error |-> "OSError", step |-> "save"]

\* process_single_keyword: True when no step raised.
ProcessSingleKeyword(kw, o1, o2, imgs, now, fs_ok) ==
    LET p == Pipeline(kw, o1, o2, imgs, now)
    IN  IF p.error # "none" THEN p ELSE SaveCli(fs_ok)

\* The names bound in the module main when uvicorn imports "main:app":
\* its module-level imports.  import time stands inside
\* if __name__ == "__main__" and is not executed by that import.
MainGlobals ==
    {"os", "sys", "asyncio", "Path", "List", "Dict", "Optional", "FastAPI",
     "File", "UploadFile", "Form", "HTTPException", "Request", "HTMLResponse",
     "JSONResponse", "StaticFiles", "Jinja2Templates", "CORSMiddleware",
     "uvicorn", "Settings", "KeywordResearch", "ContentGenerator",
     "ImageGenerator", "WordPressPublisher"}

\* main.py step 6: the file name reads time.time(); then open.
SaveWeb(fs_ok) ==
    IF "time" \notin MainGlobals THEN [error |-> "NameError", step |-> "save"]
    ELSE IF fs_ok THEN [error |-> "none", step |-> "save"]
    ELSE [error |-> "OSError", step |-> "save"]

\* One iteration of process_keywords: images only if the request asks.
\* Step 7 (publishing) stands behind step 6.
ProcessKeyword(kw, o1, o2, imgs, now, fs_ok, generate_images_) ==
    LET p == Pipeline(kw, o1, o2, IF generate_images_ THEN imgs ELSE <<>>, now)
    IN  IF p.error # "none" THEN p ELSE SaveWeb(fs_ok)

-----------------------------------------------------------------------------
(* The batch loops                                                         *)

\* Longest keyword list of a request.
MaxBatch == 2

\* Values of MAX_KEYWORDS_PER_BATCH.
BatchLimits == {0, 1, DefaultMaxKeywords}

\* The keywords of a batch: "diet sehat" and "diet_sehat" differ in one
\* character.
BatchKeywords == GenKeywords \cup {"diet_sehat"}

RECURSIVE KeywordLists(_)
KeywordLists(n) ==
    IF n = 0 THEN {<<>>}
    ELSE KeywordLists(n - 1)
            \cup {Append(L, kw) : L \in {M \in KeywordLists(n - 1) : Len(M) = n - 1},
                                  kw \in BatchKeywords}

\* The characters of a keyword, word by word.
KeywordAtoms(kw) ==
    IF kw = "seo" THEN <<"seo">>
    ELSE IF kw = "diet sehat" THEN <<"diet", " ", "sehat">>
    ELSE <<"diet", "_", "sehat">>

\* keyword.replace(' ', '_')
RECURSIVE ReplaceBlanks(_, _)
ReplaceBlanks(atoms, i) ==
    IF i > Len(atoms) THEN <<>>
    ELSE <<IF atoms[i] = " " THEN "_" ELSE atoms[i]>>
             \o ReplaceBlanks(atoms, i + 1)

\* filename = f"{output_dir}/{keyword.replace(' ', '_')}.html"
OutputFile(output_dir, kw) ==
    <<output_dir, "/">> \o ReplaceBlanks(KeywordAtoms(kw), 1) \o <<".html">>

ProcessedWholeRequest == request.keywords

\* request.keywords[:settings.max_keywords_per_batch]
Processed ==
    IF entry = "web" THEN Take(request.keywords, max_keywords_per_batch)
    ELSE request.keywords

\* results['success'].append(keyword) / results['failed'].append(keyword)
RecordCliDropsFailed(res, kw, success) ==
    IF success THEN [res EXCEPT !.success = Append(@, kw)] ELSE res

RecordCli(res, kw, success) ==
    IF success THEN [res EXCEPT !.success = Append(@, kw)]
    ELSE [res EXCEPT !.failed = Append(@, kw)]

\* results.append(result.dict()) / results.append({... "status": "error"})
RecordWeb(res, kw, p) ==
    Append(res, [keyword |-> kw,
                 status |-> IF p.error = "none" THEN "success" ELSE "error",
                 error |-> p.error])

BulkStartCli ==
    /\ batch_pc = "idle"
    /\ entry' = "cli"
    /\ \E L \in KeywordLists(MaxBatch) :
          request' = [keywords |-> L, generate_images |-> TRUE]
    /\ bulk_results' = [success |-> <<>>, failed |-> <<>>]
    /\ batch_pc' = "loop"
    /\ UNCHANGED <<max_keywords_per_batch, kindex, runs, response>>
    /\ UNCHANGED nonBatchVars

BulkStartWeb ==
    /\ batch_pc = "idle"
    /\ entry' = "web"
    /\ \E L \in KeywordLists(MaxBatch), g \in BOOLEAN :
          request' = [keywords |-> L, generate_images |-> g]
    /\ max_keywords_per_batch' \in BatchLimits
    /\ bulk_results' = <<>>
    /\ batch_pc' = "loop"
    /\ UNCHANGED <<kindex, runs, response>>
    /\ UNCHANGED nonBatchVars

\* What is kept of an iteration: its keyword, whether every text and image
\* provider call failed, whether the file system served, and how it ended.
Run(kw, o1, o2, im, fs_ok, p) ==
    [keyword |-> kw,
     providers_failed |-> o1.failed /\ o2.failed /\ im.failed,
     fs_ok |-> fs_ok, error |-> p.error, step |-> p.step]

\* One iteration of the loop of process_bulk_keywords.
BulkStepCli ==
    /\ batch_pc = "loop"
    /\ entry = "cli"
    /\ kindex < Len(Processed)
    /\ LET kw == Processed[kindex + 1]
       IN  \E o1 \in ChainOutcomes("outline"), o2 \in ChainOutcomes("content"),
              im \in PipelineImages, fs_ok \in BOOLEAN :
              LET p == ProcessSingleKeyword(kw, o1, o2, im.images, Dates[1],
                                            fs_ok)
              IN  /\ runs' = Append(runs, Run(kw, o1, o2, im, fs_ok, p))
                  /\ bulk_results' = RecordCli(bulk_results, kw,
                                               p.error = "none")
    /\ kindex' = kindex + 1
    /\ UNCHANGED <<entry, request, max_keywords_per_batch, batch_pc, response>>
    /\ UNCHANGED nonBatchVars

\* One iteration of the loop of process_keywords.
BulkStepWeb ==
    /\ batch_pc = "loop"
    /\ entry = "web"
    /\ kindex < Len(Processed)
    /\ LET kw == Processed[kindex + 1]
       IN  \E o1 \in ChainOutcomes("outline"), o2 \in ChainOutcomes("content"),
              im \in PipelineImages, fs_ok \in BOOLEAN :
              LET p == ProcessKeyword(kw, o1, o2, im.images, Dates[1], fs_ok,
                                      request.generate_images)
              IN  /\ runs' = Append(runs, Run(kw, o1, o2, im, fs_ok, p))
                  /\ bulk_results' = RecordWeb(bulk_results, kw, p)
    /\ kindex' = kindex + 1
    /\ UNCHANGED <<entry, request, max_keywords_per_batch, batch_pc, response>>
    /\ UNCHANGED nonBatchVars

\* return results / return {"status", "results", "total_processed"}
BulkReturn ==
    /\ batch_pc = "loop"
    /\ kindex = Len(Processed)
    /\ response' = IF entry = "cli" THEN bulk_results
                   ELSE [status |-> "success", results |-> bulk_results,
                         total_processed |-> Len(bulk_results)]
    /\ batch_pc' = "returned"
    /\ UNCHANGED <<entry, request, max_keywords_per_batch, kindex, runs,
                   bulk_results>>
    /\ UNCHANGED nonBatchVars

BatchInit == GenIdle /\ ResIdle /\ HeuIdle /\ ImgIdle /\ HtmlIdle /\ BatchIdle
        /\ PubIdle /\ StartIdle

BatchNext ==
    BulkStartCli \/ BulkStartWeb \/ BulkStepCli \/ BulkStepWeb \/ BulkReturn

SpecBatch == BatchInit /\ [][BatchNext]_vars

-----------------------------------------------------------------------------
(* Properties of the batch loops                                           *)

\* The keywords of the iterations that ended with (ok) or without (~ok)
\* an exception, in the order of the iterations.
RECURSIVE KeywordsOfRuns(_, _, _)
KeywordsOfRuns(rs, ok, i) ==
    IF i > Len(rs) THEN <<>>
    ELSE (IF (rs[i].error = "none") = ok THEN <<rs[i].keyword>> ELSE <<>>)
             \o KeywordsOfRuns(rs, ok, i + 1)

\* What has been recorded so far, whichever the entry point.
Recorded ==
    IF entry = "cli" THEN Len(bulk_results.success) + Len(bulk_results.failed)
    ELSE Len(bulk_results)

\* C18: the keywords are handled one at a time in input order; an exception
\* of one keyword is recorded against it and the loop goes on, so every
\* processed keyword is recorded exactly once, as success or as failed, the
\* records together count the keywords processed, and the entry point
\* returns only after the last of them.
C18_EveryKeywordRecordedOnce ==
    batch_pc \in {"loop", "returned"} =>
        /\ kindex <= Len(Processed)
        /\ Len(runs) = kindex
        /\ \A i \in 1..kindex : runs[i].keyword = Processed[i]
        /\ Recorded = kindex
        /\ entry = "cli" =>
              /\ bulk_results.success = KeywordsOfRuns(runs, TRUE, 1)
              /\ bulk_results.failed = KeywordsOfRuns(runs, FALSE, 1)
        /\ entry = "web" =>
              \A i \in 1..kindex :
                 /\ bulk_results[i].keyword = Processed[i]
                 /\ bulk_results[i].status \in {"success", "error"}
                 /\ bulk_results[i].status = "success" <=> runs[i].error = "none"
        /\ batch_pc = "returned" =>
              /\ kindex = Len(Processed)
              /\ entry = "web" => response.total_processed = Len(Processed)
              /\ entry = "cli" => response = bulk_results

\* A CLI batch of two keywords has returned: the first raised in
\* generate_content, the second was saved.
C18_Witness ==
    /\ batch_pc = "returned"
    /\ entry = "cli"
    /\ Len(request.keywords) = 2
    /\ runs[1].error = "AttributeError"
    /\ runs[2].error = "none"
    /\ response.failed = <<request.keywords[1]>>
    /\ response.success = <<request.keywords[2]>>

\* Iteration i was recorded as success.
RecordedSuccess(i) ==
    IF entry = "cli"
    THEN /\ runs[i].error = "none"
         /\ bulk_results.success = KeywordsOfRuns(runs, TRUE, 1)
    ELSE bulk_results[i].status = "success"

\* C19: in both entry points a keyword for which every text and image
\* provider call failed, with the file system serving, is recorded as
\* success and never as failed or with status 'error'.
C19_ProviderFailuresNeverFailKeyword ==
    batch_pc \in {"loop", "returned"} =>
        \A i \in 1..Len(runs) :
           runs[i].providers_failed /\ runs[i].fs_ok => RecordedSuccess(i)

\* The part of C19 that the code keeps: process_bulk_keywords.
C19_CliProviderFailuresNeverFailKeyword ==
    entry = "cli" => C19_ProviderFailuresNeverFailKeyword

-----------------------------------------------------------------------------
(* The pipeline of one keyword, step by step (test_system.py               *)
(* test_full_pipeline, cli.py process_single_keyword)                      *)
(*                                                                         *)
(* The steps are the actions of the components, taken in the order of the  *)
(* calls: research_keyword, generate_outline, generate_content,            *)
(* generate_images, build_html.  No credential is set.                     *)

\* The keyword as the research component holds it.
Atoms(kw) == IF kw = "seo" THEN <<"seo">> ELSE <<"diet", " ", "sehat">>

\* The lookups of the research either all fail or all answer.
PipelineLookups ==
    /\ rpc # "idle" => rkeyword = Atoms(gkeyword) /\ net.seed = 0
    /\ rpc \in {"questions", "serp", "analyze", "done"} =>
          \/ net.google.status = "error" /\ net.bing.status = "error"
          \/ /\ net.google = [status |-> "ok", items |-> GoogleItems(rkeyword, 3)]
             /\ net.bing = [status |-> "ok", items |-> BingItems(2)]
    /\ rpc \in {"serp", "analyze", "done"} =>
          \A j \in 1..Len(SearchTerms) :
             net.qsearch[j] = (IF net.google.status = "ok" THEN "ok" ELSE "error")
    /\ rpc \in {"analyze", "done"} =>
          net.serp = (IF net.google.status = "ok"
                      THEN Page("serp", 3, "distinct")
                      ELSE NoPage("error", "serp"))

\* research_data = await keyword_research.research_keyword(keyword)
PipelineResearch ==
    /\ rpc # "done"
    /\ ResearchNext
    /\ PipelineLookups'

\* A provider that is called fails or answers a whole document.
PipelineCalls ==
    \A i \in 1..Len(calls) :
       \/ ~calls[i].ok
       \/ calls[i].text = Text("obj", AiDoc(SchemaFields(task)))

\* outline = await generate_outline(...); content = await
\* generate_content(...)
PipelineGenerate ==
    /\ rpc = "done"
    /\ Next
    /\ PipelineCalls'

\* Position of an entry in the built-in pool.
PoolIndex(e) == CHOOSE i \in 1..Len(FreeImageUrls) : FreeImageUrls[i] = e

InPoolOrder(L) ==
    \A i \in 1..(Len(L) - 1) : PoolIndex(L[i]) < PoolIndex(L[i + 1])

\* Of the arrangements random.sample can return, those in pool order.
PipelineSamples ==
    /\ InPoolOrder(fallback_images)
    /\ (icaught /\ ipc = "done") => InPoolOrder(iresult)

\* images = await image_generator.generate_images(keyword, content)
PipelineImages_ ==
    /\ gpc = "content_done"
    /\ ImagesNext
    /\ ~isettings'.unsplash_api_key
    /\ ~isettings'.pixabay_api_key
    /\ ~isettings'.pexels_api_key
    /\ PipelineSamples'

\* html_content = await content_generator.build_html(keyword, content,
\* images)
PipelineBuildHtml ==
    /\ gpc = "content_done"
    /\ ipc = "done"
    /\ bpc = 0
    /\ bnow' = <<1>>
    /\ html' = <<BuildHtml(gkeyword, TaggedValue(content), iresult, Dates[1])>>
    /\ bkeyword' = gkeyword
    /\ bcontent' = TaggedValue(content)
    /\ bimages' = iresult
    /\ bpc' = 1
    /\ UNCHANGED nonHtmlVars

\* No credential in the environment; of the optional libraries only
\* transformers gives a client without one.
PipelineInit ==
    /\ GenInit
    /\ settings = [k \in SettingKeys |-> FALSE]
    /\ ~libs["cohere"]
    /\ ~libs["anthropic"]
    /\ ResIdle /\ HeuIdle /\ ImgIdle /\ HtmlIdle /\ BatchIdle
        /\ PubIdle /\ StartIdle

PipelineNext ==
    PipelineResearch \/ PipelineGenerate \/ PipelineImages_ \/ PipelineBuildHtml

SpecPipeline == PipelineInit /\ [][PipelineNext]_vars

-----------------------------------------------------------------------------
(* Properties of the composed pipeline                                     *)

\* No text client exists and no stock provider has a key.
NoProviderConfigured ==
    /\ \A i \in 1..Len(Providers) : ~clients[Providers[i]]
    /\ ~isettings.unsplash_api_key
    /\ ~isettings.pixabay_api_key
    /\ ~isettings.pexels_api_key

\* Entry i of the result is a URL of the built-in pool, or the saved copy
\* of a pool entry that is one.
FromFallbackPool(i) ==
    IF iresult[i].kind = "url" THEN iresult[i] \in Members(FreeImageUrls)
    ELSE /\ ~icaught
         /\ PathIndex(iresult[i]) <= Len(images)
         /\ images[PathIndex(iresult[i])] \in Members(FreeImageUrls)

Returned ==
    [keyword |-> rkeyword,
     related_keywords |-> related,
     questions |-> questions,
     top_results |-> top_results,
     competition |-> AnalyzeCompetition(top_results),
     search_volume |-> EstimateSearchVolume(rkeyword),
     research_date |-> "now"]

\* C25: once research_keyword has returned, the research data stays the
\* value it returned through generate_outline, generate_content,
\* generate_images and build_html: every field is the one returned.
C25_ResearchDataUnchanged ==
    rpc = "done" => research = Returned

\* The whole pipeline has run on research that found related keywords and
\* results, and the research data is still the returned value.
C25_Witness ==
    /\ rpc = "done"
    /\ bpc = 1
    /\ gpc = "content_done"
    /\ ipc = "done"
    /\ research = Returned
    /\ research.related_keywords # <<>>
    /\ research.top_results # <<>>

-----------------------------------------------------------------------------
(* WordPressPublisher (src/modules/wordpress_publisher.py)                 *)
(*                                                                         *)
(* The answer to a POST is [status, body]: status 0 is an exception of the *)
(* request, body says what response.json() / response.text() gives.  A     *)
(* returned value is [none, id]: None, or the post id.                     *)

\* __init__: the Authorization header exists iff user and password do.
AuthHeader(w) == w.wordpress_user /\ w.wordpress_app_password

None == [none |-> TRUE, id |-> 0]

PostId(n) == [none |-> FALSE, id |-> n]

\* The id WordPress gives the post created by the n-th request.
NewPostId(n) == 100 + n

\* Bodies: an object with an id, a JSON array (post.get raises), and a
\* body whose reading raises.
PostBodies == {"id", "list", "unreadable"}

PostAnswers ==
    {[status |-> 0, body |-> "unreadable"]}
        \cup [status : {200, 201, 500}, body : PostBodies]

\* Whether publish_post sends its request.
SendsPost(w) == w.wordpress_url /\ AuthHeader(w)

PublishPostAnyStatus(w, a, n) ==
    IF ~SendsPost(w) THEN None
    ELSE IF a.status # 0 /\ a.body = "id" THEN PostId(NewPostId(n))
    ELSE None

\* publish_post, given the answer a to its n-th request: post.get('id') of
\* a 201 answer; None when an id is missing, for any other status, and for
\* every exception (of the request, of json(), of .get on a list, of
\* text()).
PublishPost(w, a, n) ==
    IF ~SendsPost(w) THEN None
    ELSE IF a.status = 0 THEN None
    ELSE IF a.status = 201
    THEN (IF a.body = "id" THEN PostId(NewPostId(n)) ELSE None)
    ELSE None

\* if post_id:
TruthyId(r) == ~r.none /\ r.id # 0

\* Most calls of the publisher in one run.
MaxPublish == 2

PublishKeywords == {"seo"}

WpSettings ==
    [wordpress_url : BOOLEAN, wordpress_user : BOOLEAN,
     wordpress_app_password : BOOLEAN]

PublishStart ==
    /\ ppc = "idle"
    /\ wp' \in WpSettings
    /\ ppc' = "ready"
    /\ UNCHANGED <<args, pindex, posts, publish_log, reply>>
    /\ UNCHANGED nonPubVars

\* The request of a call, if it sends one.
Sent_(w, kw, a) ==
    IF SendsPost(w) THEN <<[keyword |-> kw, status |-> a.status,
                            body |-> a.body]>>
    ELSE <<>>

\* The entry of publish_log for a call.
Call(caller, kw, a, r, raised_) ==
    [caller |-> caller, keyword |-> kw, answer |-> a, result |-> r,
     raised |-> raised_]

\* One call of publish_post.
PublishPostCall ==
    /\ ppc = "ready"
    /\ Len(publish_log) < MaxPublish
    /\ \E kw \in PublishKeywords, a \in PostAnswers :
          /\ posts' = posts \o Sent_(wp, kw, a)
          /\ publish_log' =
                Append(publish_log,
                       Call("publish_post", kw, a,
                            PublishPost(wp, a, Len(posts) + 1), FALSE))
    /\ UNCHANGED <<wp, args, ppc, pindex, reply>>
    /\ UNCHANGED nonPubVars

\* cli.py publish_to_wordpress: reads the file, calls publish_post once,
\* returns True for a truthy post id and False otherwise, also when the
\* file cannot be read.
CliPublishToWordpress(w, readable, a, n) ==
    IF ~readable THEN [called |-> FALSE, result |-> None, ok |-> FALSE]
    ELSE [called |-> TRUE, result |-> PublishPost(w, a, n),
          ok |-> TruthyId(PublishPost(w, a, n))]

PublishCliCall ==
    /\ ppc = "ready"
    /\ Len(publish_log) < MaxPublish
    /\ \E kw \in PublishKeywords, a \in PostAnswers, readable \in BOOLEAN :
          LET c == CliPublishToWordpress(wp, readable, a, Len(posts) + 1)
          IN  /\ posts' = posts \o (IF c.called THEN Sent_(wp, kw, a) ELSE <<>>)
              /\ publish_log' =
                    Append(publish_log, Call("cli", kw, a, c.result, FALSE))
    /\ UNCHANGED <<wp, args, ppc, pindex, reply>>
    /\ UNCHANGED nonPubVars

PublishInit ==
    GenIdle /\ ResIdle /\ HeuIdle /\ ImgIdle /\ HtmlIdle /\ BatchIdle
        /\ PubIdle /\ StartIdle

PublishNext == PublishStart \/ PublishPostCall \/ PublishCliCall

SpecPublish == PublishInit /\ [][PublishNext]_vars

-----------------------------------------------------------------------------
(* Properties of publish_post                                              *)

\* C21: a publish failure is a None result and is never retried: every
\* call sends at most one POST, and none without the URL or the
\* credentials; a post id is returned only for a 201 answer; for every
\* other status and every exception the call returns None and does not
\* raise.
C21_PublishFailureIsNoneNoRetry ==
    /\ Len(posts) <= Len(publish_log)
    /\ ~SendsPost(wp) => posts = <<>>
    /\ \A k \in 1..Len(publish_log) :
          LET c == publish_log[k]
          IN  /\ ~c.raised
              /\ ~c.result.none =>
                    /\ SendsPost(wp)
                    /\ c.answer.status = 201
                    /\ c.answer.body = "id"
              /\ (c.answer.status # 201) => c.result.none
              /\ ~SendsPost(wp) => c.result.none

\* Two calls with URL and credentials set: an exception of the request,
\* then a 201 answer; two requests were sent, the first call returned None
\* and the second the id of the second post.
C21_Witness ==
    /\ SendsPost(wp)
    /\ Len(publish_log) = 2
    /\ Len(posts) = 2
    /\ publish_log[1].answer.status = 0
    /\ publish_log[1].result = None
    /\ publish_log[2].answer.status = 201
    /\ publish_log[2].result = PostId(NewPostId(2))

-----------------------------------------------------------------------------
(* Startup (utils/config.py validate_settings, run.py main, main.py)       *)

TextCredentials ==
    {"openai_api_key", "cohere_api_key", "anthropic_api_key",
     "huggingface_token"}

Directories == {"output_dir", "templates_dir", "static_dir"}

\* output_dir is TRUE when the directory exists or can be made.
Environments == [TextCredentials \cup Directories -> BOOLEAN]

\* validate_settings: one of the four credentials, and the directories.
ValidateSettings(e) ==
    /\ \E k \in TextCredentials : e[k]
    /\ \A d \in Directories : e[d]

\* "run.py": python run.py; "main.py": python main.py; "asgi": an ASGI
\* server or test client given main:app (uvicorn main:app, from main
\* import app).
Launchers == {"run.py", "main.py", "asgi"}

Launch ==
    /\ server = "down"
    /\ launcher = "none"
    /\ launcher' \in Launchers
    /\ env' \in Environments
    /\ server' = "launched"
    /\ UNCHANGED nonStartVars

\* run.py main: return when validation fails (lines 30-33), else
\* uvicorn.run("main:app").  main.py as a script: sys.exit(1) when
\* validation fails, else uvicorn.run("main:app").  An ASGI server starts
\* the application itself.
EntryPoint(l, e) ==
    IF l \in {"run.py", "main.py"}
    THEN (IF ValidateSettings(e) THEN "starting" ELSE "exited")
    ELSE "starting"

RunEntryPoint ==
    /\ server = "launched"
    /\ server' = EntryPoint(launcher, env)
    /\ UNCHANGED <<env, launcher>>
    /\ UNCHANGED nonStartVars

\* startup_event: when validation fails it prints and returns; the event
\* handler raises nothing, and the server goes on to accept requests.
StartupEvent(e) ==
    IF ~ValidateSettings(e) THEN "serving" ELSE "serving"

RunStartupEvent ==
    /\ server = "starting"
    /\ server' = StartupEvent(env)
    /\ UNCHANGED <<env, launcher>>
    /\ UNCHANGED nonStartVars

StartupInit ==
    GenIdle /\ ResIdle /\ HeuIdle /\ ImgIdle /\ HtmlIdle /\ BatchIdle
        /\ PubIdle /\ StartIdle

StartupNext == Launch \/ RunEntryPoint \/ RunStartupEvent

SpecStartup == StartupInit /\ [][StartupNext]_vars

-----------------------------------------------------------------------------
(* Properties of startup                                                   *)

NoTextCredential == \A k \in TextCredentials : ~env[k]

\* C22: with none of the four text-generation credentials set, no entry
\* point lets the application reach the state in which it serves
\* keyword-processing requests.
C22_NoCredentialNoServing ==
    (launcher # "none" /\ NoTextCredential) => server # "serving"

\* The part of C22 that the code keeps: run.py and main.py as a script.
C22_ScriptsRefuseWithoutCredential ==
    (launcher \in {"run.py", "main.py"} /\ NoTextCredential) =>
        server # "serving"

-----------------------------------------------------------------------------
(* Properties of the output files of a CLI batch                           *)

\* The iterations of the CLI batch that wrote their HTML file.
Writers == {i \in 1..Len(runs) : entry = "cli" /\ runs[i].error = "none"}

\* The paths written so far (output_dir is the default "output").
FilesWritten == {OutputFile("output", runs[i].keyword) : i \in Writers}

SuccessfulKeywords == {runs[i].keyword : i \in Writers}

\* C24: in a CLI batch two different keywords never write the same path,
\* so no saved HTML is overwritten by a later keyword and there are as many
\* files as distinct successful keywords.
C24_OneFilePerKeyword ==
    /\ \A i, j \in Writers :
          runs[i].keyword # runs[j].keyword =>
              OutputFile("output", runs[i].keyword)
                  # OutputFile("output", runs[j].keyword)
    /\ Cardinality(FilesWritten) = Cardinality(SuccessfulKeywords)

-----------------------------------------------------------------------------
(* Consistency of the competition figures with the top results             *)

\* Level _analyze_competition gives for a number of distinct domains.
LevelOf(unique_domains) ==
    IF unique_domains >= HighDomains THEN "Tinggi"
    ELSE IF unique_domains >= MediumDomains THEN "Sedang"
    ELSE "Rendah"

\* The competition figures of a research result are those of its list of
\* top results.
Consistent(r) ==
    LET domains == {r.top_results[i].domain : i \in 1..Len(r.top_results)}
    IN  /\ r.competition.unique_domains = Cardinality(domains)
        /\ r.competition.total_results = Len(r.top_results)
        /\ r.competition.level = LevelOf(Cardinality(domains))

C26_NormalPathConsistent ==
    rpc = "done" => Consistent(research)

\* Research returned with several results from fewer domains.
C26_NormalPathWitness ==
    /\ rpc = "done"
    /\ Len(research.top_results) >= 3
    /\ research.competition.unique_domains = 2
    /\ research.competition.level = "Sedang"

-----------------------------------------------------------------------------
(* The AI image in the result of generate_images                           *)

\* The AI provider answered and its image was written to
\* output/images/<keyword>_ai.jpg: the file is the first entry of the pool.
AiImageWritten ==
    /\ isettings.hf_client
    /\ inet.huggingface = "ok"
    /\ images # <<>>
    /\ images[1] = AiImagePath

\* The AI image is in the result: as the file the provider wrote, or as
\* the copy _save_images_locally makes of the first entry of the pool.
AiImageInResult ==
    \E i \in 1..Len(iresult) :
       iresult[i] = AiImagePath \/ iresult[i] = LocalPath(NumStr[1])

\* C27: when the AI provider succeeded and its image was written, the image
\* is part of the result of generate_images whenever the cap is at least 1.
C27_AiImageSurvives ==
    (ipc = "done" /\ ~icaught /\ AiImageWritten
        /\ isettings.max_images_per_article >= 1) => AiImageInResult

-----------------------------------------------------------------------------
(* The web endpoints /publish-wordpress and /upload-keywords (main.py)     *)
(*                                                                         *)
(* The outcome of a handler body is [raised, status, ...]: raised says an  *)
(* exception left the body, status is the status of the HTTPException or   *)
(* of the response (0 for an exception that is not an HTTPException).      *)

\* except Exception as e: raise HTTPException(status_code=500, ...).
\* HTTPException is an Exception, so the handler also catches the
\* HTTPException the body raised itself.
ExceptException(o) ==
    IF o.raised THEN [o EXCEPT !.status = 500] ELSE o

\* The try body of publish_to_wordpress, given the answer a to the n-th
\* POST of the publisher.
PublishToWordpressBody(w, a, n) ==
    IF ~w.wordpress_url
    THEN [raised |-> TRUE, status |-> 400, called |-> FALSE, post_id |-> None]
    ELSE [raised |-> FALSE, status |-> 200, called |-> TRUE,
          post_id |-> PublishPost(w, a, n)]

PublishToWordpress(w, a, n) == ExceptException(PublishToWordpressBody(w, a, n))

\* An uploaded file: its name is stem + ext (no name at all for ext
\* "none"), its content a CSV with a keyword column, a CSV without one,
\* bytes that are not UTF-8, or nothing.
Extensions == {".csv", ".txt", ".CSV", "none"}

Contents == {"keyword_column", "first_column", "undecodable", "empty"}

Uploads == [ext : Extensions, content : Contents]

\* file.filename.endswith('.csv')
EndsWithCsv(file) == file.ext = ".csv"

\* The try body of upload_keywords.
UploadKeywordsBody(file) ==
    IF file.ext = "none" THEN [raised |-> TRUE, status |-> 0]
    ELSE IF ~EndsWithCsv(file) THEN [raised |-> TRUE, status |-> 400]
    ELSE IF file.content \in {"undecodable", "empty"}
    THEN [raised |-> TRUE, status |-> 0]
    ELSE [raised |-> FALSE, status |-> 200]

UploadKeywords(file) == ExceptException(UploadKeywordsBody(file))

\* Most requests to the two endpoints in one run.
MaxRequests == 2

\* POST /publish-wordpress
WebPublishWordpress ==
    /\ ppc = "ready"
    /\ Len(reply) < MaxRequests
    /\ \E kw \in PublishKeywords, a \in PostAnswers :
          LET o == PublishToWordpress(wp, a, Len(posts) + 1)
          IN  /\ posts' = posts \o (IF o.called THEN Sent_(wp, kw, a) ELSE <<>>)
              /\ reply' = Append(reply, [endpoint |-> "/publish-wordpress",
                                         status |-> o.status,
                                         called |-> o.called,
                                         csv_name |-> FALSE])
    /\ UNCHANGED <<wp, args, ppc, pindex, publish_log>>
    /\ UNCHANGED nonPubVars

\* POST /upload-keywords
WebUploadKeywords ==
    /\ ppc = "ready"
    /\ Len(reply) < MaxRequests
    /\ \E file \in Uploads :
          reply' = Append(reply, [endpoint |-> "/upload-keywords",
                                  status |-> UploadKeywords(file).status,
                                  called |-> FALSE,
                                  csv_name |-> file.ext # "none"
                                                 /\ EndsWithCsv(file)])
    /\ UNCHANGED <<wp, args, ppc, pindex, posts, publish_log>>
    /\ UNCHANGED nonPubVars

WebInit ==
    GenIdle /\ ResIdle /\ HeuIdle /\ ImgIdle /\ HtmlIdle /\ BatchIdle
        /\ PubIdle /\ StartIdle

WebNext == PublishStart \/ WebPublishWordpress \/ WebUploadKeywords

SpecWeb == WebInit /\ [][WebNext]_vars

\* C28: the endpoints report client errors with the status they raise:
\* /publish-wordpress without a configured WordPress URL answers 400 and
\* calls no publish, /upload-keywords for a file whose name does not end in
\* .csv answers 400.
C28_ClientErrorsAnswered400 ==
    \A k \in 1..Len(reply) :
       /\ (reply[k].endpoint = "/publish-wordpress" /\ ~wp.wordpress_url) =>
             reply[k].status = 400 /\ ~reply[k].called
       /\ (reply[k].endpoint = "/upload-keywords" /\ ~reply[k].csv_name) =>
             reply[k].status = 400

\* The part of C28 that holds: without a WordPress URL the endpoint answers
\* an error and no POST goes to WordPress.
C28_NoPublishCallWithoutUrl ==
    ~wp.wordpress_url =>
       /\ posts = <<>>
       /\ \A k \in 1..Len(reply) :
             reply[k].endpoint = "/publish-wordpress" =>
                reply[k].status >= 400 /\ ~reply[k].called

\* Both endpoints were called with a client error.
C28_ErrorsWitness ==
    /\ ~wp.wordpress_url
    /\ Len(reply) = 2
    /\ reply[1].endpoint = "/publish-wordpress"
    /\ reply[2].endpoint = "/upload-keywords" /\ ~reply[2].csv_name
    /\ reply[1].status = 500 /\ reply[2].status = 500

-----------------------------------------------------------------------------
(* The command line: generation, then publishing (cli.py main, run)        *)
(*                                                                         *)
(* args.mode says which of --keyword, --keywords and --csv was given.  The *)
(* keywords are processed by the actions of the CLI batch; --keyword is a  *)
(* batch of one, its success list standing for the bool that               *)
(* process_single_keyword returned.                                        *)

Modes == {"keyword", "keywords", "csv"}

\* The WordPress settings of a command line that publishes: user and
\* password set, the URL set or not.
CliWpSettings ==
    {w \in WpSettings : w.wordpress_user /\ w.wordpress_app_password}

\* Answers to the POST of a publish: an exception, a created post.
CliAnswers ==
    {[status |-> 0, body |-> "unreadable"], [status |-> 201, body |-> "id"]}

\* parser.parse_args(); cli = ContentGeneratorCLI()
CliMain ==
    /\ ppc = "idle"
    /\ batch_pc = "idle"
    /\ args' \in [mode : Modes, wordpress : BOOLEAN]
    /\ wp' \in CliWpSettings
    /\ ppc' = "generate"
    /\ UNCHANGED <<pindex, posts, publish_log, reply>>
    /\ UNCHANGED nonPubVars

\* process_single_keyword / process_bulk_keywords / process_csv_file with
\* a CSV file that can be read.
CliGenerate ==
    /\ ppc = "generate"
    /\ BulkStartCli \/ BulkStepCli \/ BulkReturn
    /\ args.mode = "keyword" => Len(request'.keywords) = 1

\* process_csv_file: pd.read_csv or the column access raised.
CliCsvUnreadable ==
    /\ ppc = "generate"
    /\ args.mode = "csv"
    /\ batch_pc = "idle"
    /\ entry' = "cli"
    /\ request' = [keywords |-> <<>>, generate_images |-> TRUE]
    /\ response' = [success |-> <<>>, failed |-> <<"keywords.csv">>]
    /\ batch_pc' = "returned"
    /\ UNCHANGED <<max_keywords_per_batch, kindex, runs, bulk_results>>
    /\ UNCHANGED nonBatchVars

\* if args.wordpress: for keyword in results['success']:
\*     await cli.publish_to_wordpress(keyword, content_path)
CliPublish ==
    /\ ppc = "generate"
    /\ batch_pc = "returned"
    /\ args.wordpress
    /\ pindex < Len(response.success)
    /\ LET kw == response.success[pindex + 1]
       IN  \E readable \in BOOLEAN, a \in CliAnswers :
              LET c == CliPublishToWordpress(wp, readable, a, Len(posts) + 1)
              IN  /\ ~readable => a.status = 0
                  /\ posts' = posts \o (IF c.called THEN Sent_(wp, kw, a)
                                        ELSE <<>>)
                  /\ publish_log' =
                        Append(publish_log, Call("cli", kw, a, c.result, FALSE))
    /\ pindex' = pindex + 1
    /\ UNCHANGED <<wp, args, ppc, reply>>
    /\ UNCHANGED nonPubVars

\* run() returns.
CliExit ==
    /\ ppc = "generate"
    /\ batch_pc = "returned"
    /\ ~args.wordpress \/ pindex = Len(response.success)
    /\ ppc' = "exited"
    /\ UNCHANGED <<wp, args, pindex, posts, publish_log, reply>>
    /\ UNCHANGED nonPubVars

CliInit ==
    GenIdle /\ ResIdle /\ HeuIdle /\ ImgIdle /\ HtmlIdle /\ BatchIdle
        /\ PubIdle /\ StartIdle

CliNext ==
    CliMain \/ CliGenerate \/ CliCsvUnreadable \/ CliPublish \/ CliExit

SpecCli == CliInit /\ [][CliNext]_vars

\* The keywords of a list.
Keywords(L) == {L[i] : i \in 1..Len(L)}

\* C29: publishing follows generation: a publish is attempted only once
\* the batch has returned, only for a keyword whose pipeline succeeded,
\* never for a keyword in the failed list, and at most once for a keyword.
C29_PublishFollowsGeneration ==
    publish_log # <<>> =>
        /\ batch_pc = "returned"
        /\ \A k \in 1..Len(publish_log) :
              /\ \E i \in 1..Len(runs) :
                    /\ runs[i].keyword = publish_log[k].keyword
                    /\ runs[i].error = "none"
              /\ publish_log[k].keyword \notin Keywords(response.failed)
              /\ \A j \in 1..Len(publish_log) :
                    publish_log[j].keyword = publish_log[k].keyword => j = k

\* The part of C29 that holds, entry by entry: the publishes are those of
\* the first entries of the success list, in its order, one for each, after
\* the batch has returned, and only with --wordpress.
C29_PublishesFollowSuccessList ==
    /\ batch_pc # "returned" => publish_log = <<>> /\ pindex = 0
    /\ batch_pc = "returned" /\ entry = "cli" =>
          /\ Len(publish_log) = pindex
          /\ pindex <= Len(response.success)
          /\ pindex > 0 => args.wordpress
          /\ \A k \in 1..pindex :
                publish_log[k].keyword = response.success[k]
          /\ ppc = "exited" /\ args.wordpress =>
                pindex = Len(response.success)

\* A batch of two different keywords, the first failed and the second
\* published.
C29_SuccessListWitness ==
    /\ ppc = "exited"
    /\ args.mode = "keywords" /\ args.wordpress
    /\ response.success = <<"seo">>
    /\ response.failed = <<"diet sehat">>
    /\ Len(publish_log) = 1
    /\ publish_log[1].keyword = "seo"

-----------------------------------------------------------------------------
(* The limit of the web batch endpoint                                     *)

\* C30: process_keywords handles at most max_keywords_per_batch keywords of
\* a request: of n keywords it processes the first
\* min(n, max_keywords_per_batch) in submission order, returns one result
\* entry for each of them and total_processed = min(n,
\* max_keywords_per_batch), and no entry for a keyword beyond the limit.
C30_WebBatchWithinLimit ==
    (entry = "web" /\ batch_pc \in {"loop", "returned"}) =>
        LET n == Len(request.keywords)
            m == Min(n, max_keywords_per_batch)
        IN  /\ kindex <= m
            /\ Len(runs) = kindex
            /\ Len(bulk_results) = kindex
            /\ \A i \in 1..kindex :
                  /\ runs[i].keyword = request.keywords[i]
                  /\ bulk_results[i].keyword = request.keywords[i]
            /\ batch_pc = "returned" =>
                  /\ kindex = m
                  /\ response.total_processed = m
                  /\ response.results = bulk_results

\* A request with two different keywords under a limit of one has
\* returned: one entry, for the first keyword.
C30_Witness ==
    /\ entry = "web"
    /\ batch_pc = "returned"
    /\ max_keywords_per_batch = 1
    /\ Len(request.keywords) = 2
    /\ request.keywords[1] # request.keywords[2]
    /\ response.total_processed = 1
    /\ Len(response.results) = 1
    /\ response.results[1].keyword = request.keywords[1]

====
